---- MODULE Spec2Model ----
(***************************************************************************)
(* Rate-limited, checkpointed writer of scrape_conference_standings.py:    *)
(* safe_update_cell, flush_pending_writes, update_university_record and    *)
(* the part of main() that loads the checkpoint file, flushes the pending  *)
(* writes and runs the batch loop over the scraped records.                *)
(*                                                                         *)
(* Time is the value of time.time() in whole seconds.  A cell write is a   *)
(* record [col, value]; every value handed to the writer is a fresh        *)
(* number, so that a write can be followed through the store, the          *)
(* checkpoint file and the console messages.                               *)
(***************************************************************************)
EXTENDS Integers, Sequences, FiniteSets, TLC

\* ---------------------------------------------------------------- bounds
MaxTime == 63       \* the operator waits no longer than this
MaxRuns == 2        \* process runs (a run ends normally or is interrupted)
MaxRecords == 3     \* scraped records, over all runs
MaxLen == 3         \* characters in a name handed to the similarity functions
MaxEntities == 3    \* reference entities in a list handed to the ranker

\* ------------------------------------------------------ program constants
WRITE_LIMIT_PER_MIN == 2        \* SHEETS_WRITE_LIMIT, read from the environment
window == 60                    \* seconds
COL_CONFERENCE_RECORD == 25
COL_OVERALL_RECORD == 26
COL_CONFERENCE_STANDING == 27

Rows == <<3, 4>>                \* the sheet rows of the teams on the scraped page, in page order
TickSteps == {window}           \* a wait of the operator; shorter delays are the sleeps of main

VARIABLES
    now,            \* time.time()
    sheet,          \* the store: the cell writes performed, in order, with their time
    progress,       \* the in-memory progress dict
    file,           \* the checkpoint file .conference_progress.json
    pc,             \* "start", "flush", "fetch", "loop", "update", "done"
    run,            \* number of the current process run
    fi, fj,         \* flush_pending_writes: position (group, write) in pending
    remaining,      \* flush_pending_writes: remaining
    flushLimited,   \* a write of the current flush was refused by the rate limit
    batchLen,       \* number of scraped records of this run
    idx,            \* batch loop: records handed to update_university_record
    cur,            \* update_university_record: row and writes
    ui,             \* update_university_record: index of the next field
    nextVal,        \* next fresh value
    startPending,   \* pending_writes as loaded at the start of this run
    calls,          \* every call of safe_update_cell: value, result, caller, run
    results,        \* every return of update_university_record: row, values, ok, run
    skipped,        \* every scraped record for which no mapping was confirmed: values, run
    args,           \* the arguments of a call of a matching function
    out,            \* what that call returned
    ic,             \* interactive_confirm: the state of one call
    confs           \* main: the loop over the conferences of one division and gender

vars == <<now, sheet, progress, file, pc, run, fi, fj, remaining, flushLimited,
          batchLen, idx, cur, ui, nextVal, startPending, calls, results,
          skipped, args, out, ic, confs>>

flushVars == <<fi, fj, remaining, flushLimited>>
loopVars == <<batchLen, idx, cur, ui, nextVal>>
matchVars == <<args, out, ic>>
writerVars == <<now, sheet, progress, file, pc, run, flushVars, loopVars,
                startPending, calls, results, skipped, confs>>

\* no matching function is being called
NoArgs == [fn |-> "none"]
NoOut == [kind |-> "none"]
NoConfirm == [pc |-> "none"]
MatchIdle == args = NoArgs /\ out = NoOut /\ ic = NoConfirm

EmptyProgress == [write_timestamps |-> <<>>, pending_writes |-> <<>>]

\* main is not in the loop over the conferences
NoConfs == [completed_confs |-> {}, force_reprocess |-> FALSE, next |-> 1,
            first |-> 1, log |-> <<>>]
NoRecord == [row |-> 0, writes |-> <<>>]

\* ------------------------------------------------------- safe_update_cell
\* a limiter that never forgets a timestamp
PruneTimestamps_KeepAll(timestamps, t) ==
    timestamps

\* timestamps = [t for t in timestamps if now - t <= window]
PruneTimestamps(timestamps, t) ==
    SelectSeq(timestamps, LAMBDA x : t - x <= window)

\* the comparison of a limiter that lets one write too many through
LimitReached_OffByOne(timestamps) ==
    Len(timestamps) > WRITE_LIMIT_PER_MIN

\* len(timestamps) >= WRITE_LIMIT_PER_MIN
LimitReached(timestamps) ==
    Len(timestamps) >= WRITE_LIMIT_PER_MIN

\* a limiter that records the time of the write before it calls the store
safe_update_cell_CountsFailure(timestamps, t, storeOk) ==
    LET pruned == PruneTimestamps(timestamps, t) IN
    IF LimitReached(pruned)
    THEN [res |-> "limit", ts |-> timestamps]
    ELSE IF ~storeOk
         THEN [res |-> "fail", ts |-> Append(pruned, t)]
         ELSE [res |-> "ok", ts |-> Append(pruned, t)]

\* The result and the new progress['write_timestamps'].  storeOk tells
\* whether ws.update_cell returns or raises.
safe_update_cell(timestamps, t, storeOk) ==
    LET pruned == PruneTimestamps(timestamps, t) IN
    IF LimitReached(pruned)
    THEN [res |-> "limit", ts |-> timestamps]
    ELSE IF ~storeOk
         THEN [res |-> "fail", ts |-> timestamps]
         ELSE [res |-> "ok", ts |-> Append(pruned, t)]

\* writes.index(w): the first position holding an equal element
IndexOf(writes, w) ==
    CHOOSE i \in 1..Len(writes) :
        /\ writes[i] = w
        /\ \A k \in 1..(i - 1) : writes[k] # w

\* a deferral that leaves out the refused write itself
RemainingFrom_SkipRefused(writes, i) ==
    SubSeq(writes, i + 1, Len(writes))

\* the refused or failed write and the writes after it
RemainingFrom(writes, i) ==
    SubSeq(writes, i, Len(writes))

\* ------------------------------------------------------------------- Init
Init ==
    /\ now = 0
    /\ sheet = <<>>
    /\ progress = EmptyProgress
    /\ file = EmptyProgress
    /\ pc = "start"
    /\ run = 1
    /\ fi = 1
    /\ fj = 1
    /\ remaining = <<>>
    /\ flushLimited = FALSE
    /\ batchLen = 0
    /\ idx = 0
    /\ cur = NoRecord
    /\ ui = 1
    /\ nextVal = 1
    /\ startPending = <<>>
    /\ calls = <<>>
    /\ results = <<>>
    /\ skipped = <<>>
    /\ confs = NoConfs
    /\ MatchIdle

\* The checkpoint file left by earlier runs in which three records, for the
\* rows 3, 4 and 5, were each refused at their last field; the two writes
\* recorded in it were made 61 seconds before the clock of the model starts.
InitResume ==
    /\ now = 0
    /\ sheet = <<>>
    /\ progress = EmptyProgress
    /\ file = [write_timestamps |-> <<0 - window - 1, 0 - window - 1>>,
               pending_writes |->
                   << [row |-> 3, writes |-> <<[col |-> COL_CONFERENCE_STANDING, value |-> 1]>>],
                      [row |-> 4, writes |-> <<[col |-> COL_CONFERENCE_STANDING, value |-> 2]>>],
                      [row |-> 5, writes |-> <<[col |-> COL_CONFERENCE_STANDING, value |-> 3]>>] >>]
    /\ pc = "start"
    /\ run = 1
    /\ fi = 1
    /\ fj = 1
    /\ remaining = <<>>
    /\ flushLimited = FALSE
    /\ batchLen = 0
    /\ idx = 0
    /\ cur = NoRecord
    /\ ui = 1
    /\ nextVal = 4
    /\ startPending = <<>>
    /\ calls = <<>>
    /\ results = <<>>
    /\ skipped = <<>>
    /\ confs = NoConfs
    /\ MatchIdle

\* ---------------------------------------------------------------- actions
\* a main that goes on to the new work without flushing
FirstPhase_SkipFlush(pending) == "fetch"

\* flush_pending_writes returns at once when nothing is pending
FirstPhase(pending) ==
    IF pending = <<>> THEN "fetch" ELSE "flush"

\* main: read the progress file and call flush_pending_writes, which
\* returns at once when nothing is pending.
LoadProgress ==
    /\ pc = "start"
    /\ progress' = file
    /\ startPending' = file.pending_writes
    /\ pc' = FirstPhase(file.pending_writes)
    /\ fi' = 1
    /\ fj' = 1
    /\ remaining' = <<>>
    /\ flushLimited' = FALSE
    /\ UNCHANGED <<now, sheet, file, run, loopVars, calls, results>>
    /\ UNCHANGED <<matchVars, skipped, confs>>

\* flush_pending_writes: one pass of the inner loop, with the bookkeeping
\* of the group when the pass ends it.
FlushWrite ==
    /\ pc = "flush"
    /\ fi <= Len(progress.pending_writes)
    /\ LET item == progress.pending_writes[fi]
           writes == item.writes
           w == writes[fj]
       IN \E storeOk \in BOOLEAN :
          LET r == safe_update_cell(progress.write_timestamps, now, storeOk)
              incomplete == RemainingFrom(writes, IndexOf(writes, w))
          IN /\ calls' = Append(calls, [value |-> w.value, res |-> r.res,
                                        by |-> "flush", run |-> run])
             /\ IF r.res = "ok"
                THEN /\ sheet' = Append(sheet, [row |-> item.row, col |-> w.col,
                                                value |-> w.value, t |-> now])
                     /\ progress' = [progress EXCEPT !.write_timestamps = r.ts]
                     /\ file' = progress'
                     /\ IF fj < Len(writes)
                        THEN fj' = fj + 1 /\ fi' = fi
                        ELSE fj' = 1 /\ fi' = fi + 1
                     /\ UNCHANGED <<remaining, flushLimited>>
                ELSE /\ remaining' = Append(remaining,
                                        [row |-> item.row, writes |-> incomplete])
                     /\ flushLimited' = (flushLimited \/ r.res = "limit")
                     /\ fj' = 1
                     /\ fi' = fi + 1
                     /\ progress' = [progress EXCEPT !.write_timestamps = r.ts]
                     /\ UNCHANGED <<sheet, file>>
    /\ UNCHANGED <<now, pc, run, loopVars, startPending, results>>
    /\ UNCHANGED <<matchVars, skipped, confs>>

\* flush_pending_writes: persist remaining pending writes
FlushEnd ==
    /\ pc = "flush"
    /\ fi > Len(progress.pending_writes)
    /\ progress' = [progress EXCEPT !.pending_writes = remaining]
    /\ file' = progress'
    /\ pc' = "fetch"
    /\ UNCHANGED <<now, sheet, run, flushVars, loopVars, startPending, calls, results>>
    /\ UNCHANGED <<matchVars, skipped, confs>>

\* the number of records whose values have been issued
RecordsIssued == (nextVal - 1) \div 3

\* main: fetch and parse the standings page; the scraped records of this run
FetchStandings ==
    /\ pc = "fetch"
    /\ \E n \in 0..(MaxRecords - RecordsIssued) : batchLen' = n
    /\ idx' = 0
    /\ pc' = "loop"
    /\ UNCHANGED <<now, sheet, progress, file, run, flushVars, cur, ui, nextVal,
                   startPending, calls, results>>
    /\ UNCHANGED <<matchVars, skipped, confs>>

\* the sheet row confirmed for the record whose first value is v: the page
\* lists the same teams in the same order in every run
target_row(v) == Rows[1 + (((v - 1) \div 3) % Len(Rows))]

\* the writes list built by update_university_record from the data dict
RecordWrites(v) ==
    << [col |-> COL_CONFERENCE_RECORD, value |-> v],
       [col |-> COL_OVERALL_RECORD, value |-> v + 1],
       [col |-> COL_CONFERENCE_STANDING, value |-> v + 2] >>

\* main: the batch loop takes the next scraped record, the operator confirms
\* its row, and update_university_record is called with the payload
NextRecord ==
    /\ pc = "loop"
    /\ idx < batchLen
    /\ cur' = [row |-> target_row(nextVal), writes |-> RecordWrites(nextVal)]
    /\ nextVal' = nextVal + 3
    /\ idx' = idx + 1
    /\ ui' = 1
    /\ pc' = "update"
    /\ UNCHANGED <<now, sheet, progress, file, run, flushVars, batchLen,
                   startPending, calls, results>>
    /\ UNCHANGED <<matchVars, skipped, confs>>

\* a main that hands the record to the writer although no mapping was confirmed
SkipRecord_StillWrites ==
    /\ pc = "loop"
    /\ idx < batchLen
    /\ skipped' = Append(skipped, [values |-> [k \in 1..3 |-> nextVal + k - 1],
                                   run |-> run])
    /\ cur' = [row |-> target_row(nextVal), writes |-> RecordWrites(nextVal)]
    /\ nextVal' = nextVal + 3
    /\ idx' = idx + 1
    /\ ui' = 1
    /\ pc' = "update"
    /\ UNCHANGED <<now, sheet, progress, file, run, flushVars, batchLen,
                   startPending, calls, results, matchVars, confs>>

\* main: the resolver returned no match for the next scraped record (the
\* operator skipped it or the candidates ran out); the loop prints "No mapping
\* confirmed" and continues with the next record, without the pause
SkipRecord ==
    /\ pc = "loop"
    /\ idx < batchLen
    /\ skipped' = Append(skipped, [values |-> [k \in 1..3 |-> nextVal + k - 1],
                                   run |-> run])
    /\ nextVal' = nextVal + 3
    /\ idx' = idx + 1
    /\ UNCHANGED <<now, sheet, progress, file, pc, run, flushVars, batchLen,
                   cur, ui, startPending, calls, results, matchVars, confs>>

\* a batch that ends at the first write failure
AfterWriteFailure_EndRun == "done"

\* an update that starts the row again after a write failure
AfterWriteFailure_Retry == "update"

\* where the batch loop goes after update_university_record returned False
\* because a write failed
AfterWriteFailure == "loop"

\* update_university_record: one pass of the loop over the writes; when the
\* function returns, main sleeps one second and goes on with the batch
UpdateWrite ==
    /\ pc = "update"
    /\ LET writes == cur.writes
           w == writes[ui]
           ret(ok) == Append(results, [row |-> cur.row,
                                       values |-> [k \in 1..Len(writes) |-> writes[k].value],
                                       ok |-> ok, run |-> run])
       IN \E storeOk \in BOOLEAN :
          LET r == safe_update_cell(progress.write_timestamps, now, storeOk)
          IN /\ calls' = Append(calls, [value |-> w.value, res |-> r.res,
                                        by |-> "update", run |-> run])
             /\ CASE r.res = "ok" ->
                       /\ sheet' = Append(sheet, [row |-> cur.row, col |-> w.col,
                                                  value |-> w.value, t |-> now])
                       /\ progress' = [progress EXCEPT !.write_timestamps = r.ts]
                       /\ file' = progress'
                       /\ IF ui < Len(writes)
                          THEN /\ ui' = ui + 1
                               /\ UNCHANGED <<pc, now, results>>
                          ELSE /\ ui' = 1
                               /\ pc' = "loop"
                               /\ now' = now + 1
                               /\ results' = ret(TRUE)
                  [] r.res = "limit" ->
                       /\ progress' = [progress EXCEPT
                               !.write_timestamps = r.ts,
                               !.pending_writes =
                                   Append(@, [row |-> cur.row,
                                              writes |-> RemainingFrom(writes, ui)])]
                       /\ file' = progress'
                       /\ ui' = 1
                       /\ pc' = "loop"
                       /\ now' = now + 1
                       /\ results' = ret(FALSE)
                       /\ UNCHANGED sheet
                  [] r.res = "fail" ->
                       /\ ui' = 1
                       /\ pc' = AfterWriteFailure
                       /\ now' = now + 1
                       /\ results' = ret(FALSE)
                       /\ progress' = [progress EXCEPT !.write_timestamps = r.ts]
                       /\ UNCHANGED <<sheet, file>>
    /\ UNCHANGED <<run, flushVars, batchLen, idx, cur, nextVal, startPending>>
    /\ UNCHANGED <<matchVars, skipped, confs>>

\* main: the loop over the scraped records is over
EndBatch ==
    /\ pc = "loop"
    /\ idx = batchLen
    /\ pc' = "done"
    /\ UNCHANGED <<now, sheet, progress, file, run, flushVars, loopVars,
                   startPending, calls, results>>
    /\ UNCHANGED <<matchVars, skipped, confs>>

\* the memory of a process that ended
ProcessGone ==
    /\ progress' = EmptyProgress
    /\ fi' = 1
    /\ fj' = 1
    /\ remaining' = <<>>
    /\ flushLimited' = FALSE
    /\ batchLen' = 0
    /\ idx' = 0
    /\ cur' = NoRecord
    /\ ui' = 1
    /\ startPending' = <<>>

\* the operator runs the script again
Restart ==
    /\ pc = "done"
    /\ run < MaxRuns
    /\ run' = run + 1
    /\ pc' = "start"
    /\ ProcessGone
    /\ UNCHANGED <<now, sheet, file, nextVal, calls, results>>
    /\ UNCHANGED <<matchVars, skipped, confs>>

\* the operator interrupts the run between two writes and runs the script again
Interrupt ==
    /\ pc \in {"flush", "fetch", "loop", "update"}
    /\ run < MaxRuns
    /\ run' = run + 1
    /\ pc' = "start"
    /\ ProcessGone
    /\ UNCHANGED <<now, sheet, file, nextVal, calls, results>>
    /\ UNCHANGED <<matchVars, skipped, confs>>

\* time passes
Tick ==
    /\ \E d \in TickSteps :
          /\ now + d <= MaxTime
          /\ now' = now + d
    /\ UNCHANGED <<sheet, progress, file, pc, run, flushVars, loopVars,
                   startPending, calls, results>>
    /\ UNCHANGED <<matchVars, skipped, confs>>

Next ==
    \/ LoadProgress
    \/ FlushWrite
    \/ FlushEnd
    \/ FetchStandings
    \/ NextRecord
    \/ SkipRecord
    \/ UpdateWrite
    \/ EndBatch
    \/ Restart
    \/ Interrupt
    \/ Tick

Spec == Init /\ [][Next]_vars

\* the runs that start from the checkpoint file of InitResume
SpecResume == InitResume /\ [][Next]_vars

\* the first time, from t on, at which every timestamp has left the window
WindowClearAt(timestamps, t) ==
    LET ends == {t} \cup {timestamps[i] + window + 1 : i \in DOMAIN timestamps}
    IN CHOOSE m \in ends : \A e \in ends : e <= m

\* the operator waits until the writes recorded in the checkpoint file have
\* left the window and runs the script again
RestartAfterWait ==
    /\ pc = "done"
    /\ run < MaxRuns
    /\ run' = run + 1
    /\ pc' = "start"
    /\ now' = WindowClearAt(file.write_timestamps, now)
    /\ ProcessGone
    /\ UNCHANGED <<sheet, file, nextVal, calls, results>>
    /\ UNCHANGED <<matchVars, skipped, confs>>

NextLive ==
    \/ LoadProgress
    \/ FlushWrite
    \/ FlushEnd
    \/ FetchStandings
    \/ NextRecord
    \/ SkipRecord
    \/ UpdateWrite
    \/ EndBatch
    \/ RestartAfterWait

\* The script is run again and again, each time after the window has
\* cleared, no run is interrupted and every step that can be taken is taken;
\* time advances with the sleeps of main and the waits of the operator.
SpecLive == InitResume /\ [][NextLive]_vars /\ WF_vars(NextLive)

\* ------------------------------------------------------- derived notions
Range(f) == {f[i] : i \in DOMAIN f}

\* the values written to the store
Performed == {sheet[i].value : i \in DOMAIN sheet}

\* the values of the writes of a pending list
PendingValues(pending) ==
    UNION {{pending[g].writes[k].value : k \in DOMAIN pending[g].writes} :
           g \in DOMAIN pending}

\* the store writes made in the 60 seconds that end at time t
WritesWithin(t) == {j \in DOMAIN sheet : t - sheet[j].t \in 0..window}

\* ------------------------------------------------------ name similarity
\* A string is a sequence of characters.  A score is kept as an exact
\* fraction [n, d] with d > 0 instead of a float.
Alphabet == {"a", "b", "A", " "}
Strings(n) == UNION {[1..k -> Alphabet] : k \in 0..n}

UpperCase == ("A" :> "a") @@ ("B" :> "b") @@ ("C" :> "c") @@ ("D" :> "d")
             @@ ("N" :> "n") @@ ("U" :> "u")
NonWord == {" ", "-", ".", "&"}

\* str.lower()
lower(s) == [i \in 1..Len(s) |-> IF s[i] \in DOMAIN UpperCase THEN UpperCase[s[i]] ELSE s[i]]

\* str.strip()
RECURSIVE strip(_)
strip(s) ==
    IF s = <<>> THEN s
    ELSE IF s[1] = " " THEN strip(Tail(s))
    ELSE IF s[Len(s)] = " " THEN strip(SubSeq(s, 1, Len(s) - 1))
    ELSE s

\* set(re.findall(r"\w+", s)): the maximal runs of word characters from
\* position i on, tok being the run that ends before i
RECURSIVE TokensFrom(_, _, _)
TokensFrom(s, i, tok) ==
    IF i > Len(s) THEN (IF tok = <<>> THEN {} ELSE {tok})
    ELSE IF s[i] \notin NonWord THEN TokensFrom(s, i + 1, Append(tok, s[i]))
    ELSE (IF tok = <<>> THEN {} ELSE {tok}) \cup TokensFrom(s, i + 1, <<>>)

Tokens(s) == TokensFrom(s, 1, <<>>)

Zero == [n |-> 0, d |-> 1]
One == [n |-> 1, d |-> 1]
FracEq(x, y) == x.n * y.d = y.n * x.d
FracLess(x, y) == x.n * y.d < y.n * x.d
FracLeq(x, y) == x.n * y.d <= y.n * x.d

\* a token_jaccard for which two names without tokens are alike
token_jaccard_EmptyAlike(a, b) ==
    LET a_tokens == Tokens(lower(a))
        b_tokens == Tokens(lower(b))
    IN IF a_tokens = b_tokens THEN One
       ELSE [n |-> Cardinality(a_tokens \cap b_tokens),
             d |-> Cardinality(a_tokens \cup b_tokens)]

token_jaccard(a, b) ==
    LET a_tokens == Tokens(lower(a))
        b_tokens == Tokens(lower(b))
    IN IF a_tokens = {} \/ b_tokens = {} THEN Zero
       ELSE [n |-> Cardinality(a_tokens \cap b_tokens),
             d |-> Cardinality(a_tokens \cup b_tokens)]

\* difflib, find_longest_match: j2len, the length of the common run that
\* ends at a[i] and b[j] and starts at or after alo and blo
RECURSIVE RunLen(_, _, _, _, _, _)
RunLen(a, b, i, j, alo, blo) ==
    IF i < alo \/ j < blo THEN 0
    ELSE IF a[i] # b[j] THEN 0
    ELSE 1 + RunLen(a, b, i - 1, j - 1, alo, blo)

\* difflib, SequenceMatcher.find_longest_match on a[alo..ahi], b[blo..bhi]
\* (no junk; names are shorter than the 200 characters of autojunk): the
\* longest block, the one that starts first in a and then first in b
find_longest_match(a, b, alo, ahi, blo, bhi) ==
    LET ends == (alo..ahi) \X (blo..bhi)
        k(e) == RunLen(a, b, e[1], e[2], alo, blo)
        sizes == {k(e) : e \in ends}
        bestsize == IF sizes = {} THEN 0 ELSE CHOOSE m \in sizes : \A x \in sizes : x <= m
    IN IF bestsize = 0 THEN [i |-> alo, j |-> blo, size |-> 0]
       ELSE LET cands == {e \in ends : k(e) = bestsize}
                e == CHOOSE x \in cands :
                         \A y \in cands : x[1] < y[1] \/ (x[1] = y[1] /\ x[2] <= y[2])
            IN [i |-> e[1] - bestsize + 1, j |-> e[2] - bestsize + 1, size |-> bestsize]

\* difflib, SequenceMatcher.get_matching_blocks: the sum of the sizes of
\* the blocks found in a[alo..ahi], b[blo..bhi]
RECURSIVE MatchCount(_, _, _, _, _, _)
MatchCount(a, b, alo, ahi, blo, bhi) ==
    IF alo > ahi \/ blo > bhi THEN 0
    ELSE LET m == find_longest_match(a, b, alo, ahi, blo, bhi)
         IN IF m.size = 0 THEN 0
            ELSE m.size
                 + (IF alo < m.i /\ blo < m.j
                    THEN MatchCount(a, b, alo, m.i - 1, blo, m.j - 1) ELSE 0)
                 + (IF m.i + m.size <= ahi /\ m.j + m.size <= bhi
                    THEN MatchCount(a, b, m.i + m.size, ahi, m.j + m.size, bhi) ELSE 0)

\* a ratio that takes one empty side for a perfect match
ratio_EmptyIsOne(a, b) ==
    IF Len(a) = 0 \/ Len(b) = 0 THEN One
    ELSE [n |-> 2 * MatchCount(a, b, 1, Len(a), 1, Len(b)), d |-> Len(a) + Len(b)]

\* difflib, SequenceMatcher(None, a, b).ratio()
ratio(a, b) ==
    IF Len(a) + Len(b) = 0 THEN One
    ELSE [n |-> 2 * MatchCount(a, b, 1, Len(a), 1, Len(b)), d |-> Len(a) + Len(b)]

\* 0.4 * seq + 0.6 * j
combined_similarity(a, b) ==
    LET seq == ratio(lower(a), lower(b))
        j == token_jaccard(a, b)
    IN [n |-> 2 * seq.n * j.d + 3 * j.n * seq.d, d |-> 5 * seq.d * j.d]

\* the writer is not running
WriterAtRest ==
    /\ now = 0
    /\ sheet = <<>>
    /\ progress = EmptyProgress
    /\ file = EmptyProgress
    /\ pc = "start"
    /\ run = 1
    /\ fi = 1
    /\ fj = 1
    /\ remaining = <<>>
    /\ flushLimited = FALSE
    /\ batchLen = 0
    /\ idx = 0
    /\ cur = NoRecord
    /\ ui = 1
    /\ nextVal = 1
    /\ startPending = <<>>
    /\ calls = <<>>
    /\ results = <<>>
    /\ skipped = <<>>
    /\ confs = NoConfs

\* two names handed to the similarity functions
InitSimilarity ==
    /\ WriterAtRest
    /\ args \in {[fn |-> "similarity", a |-> a, b |-> b] :
                    a \in Strings(MaxLen), b \in Strings(MaxLen)}
    /\ out = NoOut
    /\ ic = NoConfirm

Call_token_jaccard ==
    /\ args.fn = "similarity"
    /\ out = NoOut
    /\ out' = [kind |-> "token_jaccard", val |-> token_jaccard(args.a, args.b)]
    /\ UNCHANGED <<args, ic, writerVars>>

Call_combined_similarity ==
    /\ args.fn = "similarity"
    /\ out = NoOut
    /\ out' = [kind |-> "combined_similarity", val |-> combined_similarity(args.a, args.b)]
    /\ UNCHANGED <<args, ic, writerVars>>

NextSimilarity ==
    \/ Call_token_jaccard
    \/ Call_combined_similarity

SpecSimilarity == InitSimilarity /\ [][NextSimilarity]_vars

\* ------------------------------------------------- find_best_candidates
\* a cap that lets the bonus through
Capped_NoCap(x) == x

\* min(1.0, x)
Capped(x) == IF FracLess(One, x) THEN One ELSE x

\* base + bonus, the bonus being 0.15 or 0.0
Boosted(base, bonus) ==
    IF bonus THEN [n |-> 20 * base.n + 3 * base.d, d |-> 20 * base.d] ELSE base

\* the (row, name, score) of one entity
ScoreOf(scraped_name, u, preferred_conf) ==
    LET pref_norm == IF preferred_conf = <<>> THEN <<>> ELSE lower(strip(preferred_conf))
        base == combined_similarity(scraped_name, u.name)
        bonus == pref_norm # <<>> /\ u.conf # <<>> /\ lower(strip(u.conf)) = pref_norm
    IN [row |-> u.row, name |-> u.name, score |-> Capped(Boosted(base, bonus))]

\* x put behind the entries of a descending list that score higher than it
\* or as high as it
InsertBehindEqual(sorted, x) ==
    LET ahead == {i \in DOMAIN sorted : FracLeq(x.score, sorted[i].score)}
        k == Cardinality(ahead)
    IN SubSeq(sorted, 1, k) \o <<x>> \o SubSeq(sorted, k + 1, Len(sorted))

\* x put before the entries that score as high as it
InsertBeforeEqual(sorted, x) ==
    LET ahead == {i \in DOMAIN sorted : FracLess(x.score, sorted[i].score)}
        k == Cardinality(ahead)
    IN SubSeq(sorted, 1, k) \o <<x>> \o SubSeq(sorted, k + 1, Len(sorted))

\* x put behind the entries that score lower than it or as high as it
InsertAscending(sorted, x) ==
    LET ahead == {i \in DOMAIN sorted : FracLeq(sorted[i].score, x.score)}
        k == Cardinality(ahead)
    IN SubSeq(sorted, 1, k) \o <<x>> \o SubSeq(sorted, k + 1, Len(sorted))

\* a sort that forgets reverse=True
RECURSIVE SortDescending_Ascending(_)
SortDescending_Ascending(scores) ==
    IF scores = <<>> THEN <<>>
    ELSE InsertAscending(SortDescending_Ascending(SubSeq(scores, 1, Len(scores) - 1)),
                         scores[Len(scores)])

\* a sort that sorts ascending and then reverses the list
RECURSIVE SortDescending_TiesReversed(_)
SortDescending_TiesReversed(scores) ==
    IF scores = <<>> THEN <<>>
    ELSE InsertBeforeEqual(SortDescending_TiesReversed(SubSeq(scores, 1, Len(scores) - 1)),
                           scores[Len(scores)])

\* scores.sort(key=lambda x: x[2], reverse=True): list.sort is stable, also
\* with reverse=True
RECURSIVE SortDescending(_)
SortDescending(scores) ==
    IF scores = <<>> THEN <<>>
    ELSE InsertBehindEqual(SortDescending(SubSeq(scores, 1, Len(scores) - 1)),
                           scores[Len(scores)])

\* scores[:top_n] for top_n >= 0
Slice(scores, top_n) ==
    SubSeq(scores, 1, IF top_n < Len(scores) THEN top_n ELSE Len(scores))

find_best_candidates(scraped_name, universities, top_n, preferred_conf) ==
    LET scores == [i \in 1..Len(universities) |->
                       ScoreOf(scraped_name, universities[i], preferred_conf)]
    IN Slice(SortDescending(scores), top_n)

\* the reference list read from the sheet: the k-th data row is row k + 2,
\* names and conferences are stripped and names are not empty
RankNames == {<<"a">>, <<"A">>, <<"a", " ", "b">>}
RankConfs == {<<>>, <<"A">>}
PreferredConfs == {<<>>, <<"a", " ">>, <<" ">>}
TopNs == {1, 2, 10}
RefLists(n) ==
    UNION {{[i \in 1..k |-> [row |-> i + 2, name |-> f[i][1], conf |-> f[i][2]]] :
                f \in [1..k -> RankNames \X RankConfs]} : k \in 0..n}

\* "Duke University", "Duke", "UNC", "ACC"
DukeUniversity == <<"D", "u", "k", "e", " ", "U", "n", "i", "v", "e", "r", "s", "i", "t", "y">>
Duke == <<"D", "u", "k", "e">>
UNC == <<"U", "N", "C">>
ACC == <<"A", "C", "C">>
DukeList == << [row |-> 3, name |-> DukeUniversity, conf |-> ACC],
               [row |-> 4, name |-> Duke, conf |-> ACC],
               [row |-> 5, name |-> UNC, conf |-> ACC] >>
DukeArgs == [fn |-> "ranker", scraped_name |-> Duke, universities |-> DukeList,
             top_n |-> 10, preferred_conf |-> ACC]

\* "UC-Davis", "UC Davis", "CCAA": two spellings of one name in the sheet,
\* and the call that computes the assumed mapping of a conference entry
UCDavisHyphen == <<"U", "C", "-", "D", "a", "v", "i", "s">>
UCDavis == <<"U", "C", " ", "D", "a", "v", "i", "s">>
CCAA == <<"C", "C", "A", "A">>
DavisList == << [row |-> 3, name |-> UCDavisHyphen, conf |-> CCAA],
                [row |-> 4, name |-> UCDavis, conf |-> <<>>] >>
DavisArgs == [fn |-> "ranker", scraped_name |-> UCDavis, universities |-> DavisList,
              top_n |-> 1, preferred_conf |-> CCAA]

\* a sheet whose names hold no letter or digit
DashList == << [row |-> 3, name |-> <<"-", "-">>, conf |-> CCAA],
               [row |-> 4, name |-> <<"-">>, conf |-> <<>>] >>
DashArgs == [fn |-> "ranker", scraped_name |-> <<"-">>, universities |-> DashList,
             top_n |-> 1, preferred_conf |-> CCAA]

InitRanker ==
    /\ WriterAtRest
    /\ args \in {[fn |-> "ranker", scraped_name |-> sn, universities |-> us,
                  top_n |-> tn, preferred_conf |-> pcf] :
                    sn \in RankNames, us \in RefLists(MaxEntities),
                    tn \in TopNs, pcf \in PreferredConfs}
                \cup {DukeArgs, DavisArgs, DashArgs}
    /\ out = NoOut
    /\ ic = NoConfirm

Call_find_best_candidates ==
    /\ args.fn = "ranker"
    /\ out = NoOut
    /\ out' = [kind |-> "find_best_candidates",
               val |-> find_best_candidates(args.scraped_name, args.universities,
                                            args.top_n, args.preferred_conf)]
    /\ UNCHANGED <<args, ic, writerVars>>

NextRanker == Call_find_best_candidates

SpecRanker == InitRanker /\ [][NextRanker]_vars

\* ---------------------------------------------------- interactive_confirm
\* The resolver of scrape_conference_standings.py and the resolver of
\* scrape_ncaa_rankings.py.  Every input() call is one step; the line the
\* operator types is drawn from Lines.
MaxInputs == 4

Lines == { <<>>, <<"y">>, <<"y", "e", "s">>, <<"n">>, <<" ", "N">>, <<"s">>, <<"e">>,
           <<"p">>, <<"q">>, <<"x">>,
           <<"1">>, <<"2">>, <<" ", "1">>, <<"0">>, <<"9">>, <<"^2">>,
           <<"a">>, <<" ", "A">>, <<"b">> }

\* the characters str.isdigit() accepts: the decimal digits and, among
\* others, the superscript digits; "^2" stands for U+00B2
DecimalValue == ("0" :> 0) @@ ("1" :> 1) @@ ("2" :> 2) @@ ("9" :> 9)
SuperscriptDigits == {"^2"}

\* str.isdigit()
isdigit(s) == s # <<>> /\ \A i \in DOMAIN s : s[i] \in DOMAIN DecimalValue \cup SuperscriptDigits

\* int(s) raises ValueError on a digit that is not a decimal digit
IntRaises(s) == \E i \in DOMAIN s : s[i] \notin DOMAIN DecimalValue

\* int(s) for a string of decimal digits
RECURSIVE int(_)
int(s) == IF s = <<>> THEN 0 ELSE 10 * int(SubSeq(s, 1, Len(s) - 1)) + DecimalValue[s[Len(s)]]

\* substr in s
IsSubstring(substr, s) ==
    \E i \in 0..(Len(s) - Len(substr)) : SubSeq(s, i + 1, i + Len(substr)) = substr

\* the answers the menus take
YesAnswers == {<<"y">>, <<"y", "e", "s">>, <<>>}
\* a menu that takes only the word next
NextAnswers_OnlyWord == {<<"n", "e", "x", "t">>}
\* ans in ('n', 'next')
NextAnswers == {<<"n">>, <<"n", "e", "x", "t">>}
SkipAnswers == {<<"q">>, <<"s", "k", "i", "p">>}
NoAnswers == {<<"n">>, <<"n", "o">>}
QuitAnswers == {<<"q">>, <<"q", "u", "i", "t">>}

\* 'Use ... as the sheet name to search for? [y/N]' answered with Enter
\* taken as a yes
ConfirmYes_Default == {<<"y">>, <<"y", "e", "s">>, <<>>}
\* confirm in ('y', 'yes')
ConfirmYes == {<<"y">>, <<"y", "e", "s">>}
\* pick_ans in ('y', 'yes')
AcceptAnswers == {<<"y">>, <<"y", "e", "s">>}

\* what the resolver returns: None, a pair (row, name), or the pair
\* (None, manual) of the rankings resolver
NoRow == 0
NoMatch == [none |-> TRUE, row |-> NoRow, name |-> <<>>]
Pair(r, u) == [none |-> FALSE, row |-> r, name |-> u]
Returned(v) == [kind |-> "returned", val |-> v]
Raised == [kind |-> "raised", exc |-> "ValueError"]

\* the resolver waiting at a prompt, and the resolver left
At(prompt, i, via, text) == [pc |-> prompt, idx |-> i, via |-> via, text |-> text]
Left == At("done", 0, "menu", <<>>)

\* the position and the outcome after a step: the resolver goes on to a
\* prompt, returns, or raises
GoOn(prompt, i, via, text) == [ic |-> At(prompt, i, via, text), out |-> NoOut]
Return(v) == [ic |-> Left, out |-> Returned(v)]
Raise == [ic |-> Left, out |-> Raised]

\* one line read at the prompt the resolver waits at
Read(line, after) ==
    /\ ic' = [pc |-> after.ic.pc, idx |-> after.ic.idx, via |-> after.ic.via,
              text |-> after.ic.text, n |-> ic.n + 1, last |-> line, at |-> ic.pc,
              was |-> ic.via]
    /\ out' = after.out
    /\ UNCHANGED <<args, writerVars>>

Waiting(fn, prompt) ==
    /\ args.fn = fn
    /\ out = NoOut
    /\ ic # NoConfirm
    /\ ic.pc = prompt
    /\ ic.n < MaxInputs

\* a numbered pick from a list shown to the operator, of which the first
\* limit entries can be picked; otherwise back to where 'back' says
PickFrom(pick, list, limit, back) ==
    IF isdigit(pick)
    THEN IF IntRaises(pick) THEN Raise
         ELSE IF 1 <= int(pick) /\ int(pick) <= limit
              THEN Return(Pair(list[int(pick)].row, list[int(pick)].name))
              ELSE back
    ELSE back

Min(x, y) == IF x < y THEN x ELSE y

\* the first entity of a list whose name is the manual name, both stripped
\* and lower-cased
ExactMatches(list, manual) ==
    {i \in DOMAIN list : lower(strip(list[i].name)) = lower(strip(manual))}
FirstOf(S) == CHOOSE i \in S : \A j \in S : i <= j

\* [(r, u, combined_similarity(name, u)) ...] sorted descending
ScoredAgainst(name, list) ==
    SortDescending([i \in 1..Len(list) |->
                       [row |-> list[i].row, name |-> list[i].name,
                        score |-> combined_similarity(name, list[i].name)]])

\* ---- scrape_conference_standings.py
interactive_confirm ==
    /\ args.fn = "standings"
    /\ ic = NoConfirm
    /\ out = NoOut
    /\ LET after == IF args.candidate_list = <<>> THEN Return(NoMatch)
                    ELSE GoOn("menu", 1, "menu", <<>>)
       IN /\ ic' = [pc |-> after.ic.pc, idx |-> after.ic.idx, via |-> after.ic.via,
                    text |-> after.ic.text, n |-> 0, last |-> <<>>, at |-> "call",
                    was |-> "menu"]
          /\ out' = after.out
    /\ UNCHANGED <<args, writerVars>>

Menu == GoOn("menu", ic.idx, "menu", <<>>)

Confirm_menu ==
    /\ Waiting("standings", "menu")
    /\ \E line \in Lines :
         LET ans == lower(strip(line))
             cand == args.candidate_list
         IN Read(line,
                 IF ans \in YesAnswers THEN Return(Pair(cand[ic.idx].row, cand[ic.idx].name))
                 ELSE IF ans \in NextAnswers
                      THEN IF ic.idx + 1 > Len(cand) THEN Return(NoMatch)
                           ELSE GoOn("menu", ic.idx + 1, "menu", <<>>)
                 ELSE IF ans = <<"s">> THEN GoOn("show", ic.idx, "menu", <<>>)
                 ELSE IF ans = <<"e">> THEN GoOn("manual", ic.idx, "menu", <<>>)
                 ELSE IF ans = <<"p">> THEN GoOn("partial", ic.idx, "menu", <<>>)
                 ELSE IF ans \in SkipAnswers THEN Return(NoMatch)
                 ELSE Menu)

Confirm_show ==
    /\ Waiting("standings", "show")
    /\ \E line \in Lines :
         Read(line, PickFrom(line, args.candidate_list, Len(args.candidate_list), Menu))

Confirm_manual ==
    /\ Waiting("standings", "manual")
    /\ \E line \in Lines :
         LET manual == strip(line)
             exact == ExactMatches(args.universities, manual)
         IN Read(line,
                 IF manual = <<>> THEN Menu
                 ELSE IF args.universities = <<>> THEN Menu
                 ELSE IF exact # {}
                      THEN Return(Pair(args.universities[FirstOf(exact)].row,
                                       args.universities[FirstOf(exact)].name))
                 ELSE GoOn("fuzzy", ic.idx, "menu", manual))

Confirm_fuzzy ==
    /\ Waiting("standings", "fuzzy")
    /\ \E line \in Lines :
         LET fuzzy == ScoredAgainst(ic.text, args.universities)
         IN Read(line, PickFrom(strip(line), fuzzy, Min(10, Len(fuzzy)), Menu))

Filtered(substr) == SelectSeq(args.universities, LAMBDA u : IsSubstring(substr, lower(u.name)))

Confirm_partial ==
    /\ Waiting("standings", "partial")
    /\ \E line \in Lines :
         LET substr == lower(strip(line))
         IN Read(line,
                 IF substr = <<>> THEN Menu
                 ELSE IF Filtered(substr) = <<>> THEN Menu
                 ELSE GoOn("partial_pick", ic.idx, "menu", substr))

Confirm_partial_pick ==
    /\ Waiting("standings", "partial_pick")
    /\ \E line \in Lines :
         LET scored == ScoredAgainst(args.scraped_name, Filtered(ic.text))
         IN Read(line, PickFrom(strip(line), scored, Min(10, Len(scored)), Menu))

\* ---- scrape_ncaa_rankings.py
\* the candidate after top_candidates[i] in the loop over top_candidates[1:],
\* the first menu when there is none
NextCandidate(i) ==
    IF i + 1 <= Len(args.candidate_list) THEN GoOn("next", i + 1, "next", <<>>)
    ELSE GoOn("menu", 1, "menu", <<>>)

FirstMenu == GoOn("menu", 1, "menu", <<>>)

Rankings_interactive_confirm ==
    /\ args.fn = "rankings"
    /\ ic = NoConfirm
    /\ out = NoOut
    /\ ic' = [pc |-> "menu", idx |-> 1, via |-> "menu", text |-> <<>>,
              n |-> 0, last |-> <<>>, at |-> "call", was |-> "menu"]
    /\ UNCHANGED <<args, out, writerVars>>

Rankings_menu ==
    /\ Waiting("rankings", "menu")
    /\ \E line \in Lines :
         LET ans == lower(strip(line))
             top == args.candidate_list
         IN Read(line,
                 IF ans \in YesAnswers THEN Return(Pair(top[1].row, top[1].name))
                 ELSE IF ans = <<"s">>
                      THEN IF top = <<>> THEN FirstMenu ELSE GoOn("show", 1, "menu", <<>>)
                 ELSE IF ans = <<"e">> THEN GoOn("manual", 1, "menu", <<>>)
                 ELSE IF ans \in NoAnswers
                      THEN IF Len(top) < 2 THEN Return(NoMatch)
                           ELSE GoOn("next", 2, "next", <<>>)
                 ELSE IF ans \in QuitAnswers THEN Return(NoMatch)
                 ELSE FirstMenu)

Rankings_show ==
    /\ Waiting("rankings", "show")
    /\ \E line \in Lines :
         LET pick == strip(line)
             top == args.candidate_list
             back == IF ic.via = "menu" \/ pick = <<>> THEN FirstMenu
                     ELSE NextCandidate(ic.idx)
         IN Read(line, PickFrom(pick, top, Min(10, Len(top)), back))

Rankings_manual ==
    /\ Waiting("rankings", "manual")
    /\ \E line \in Lines :
         LET manual == strip(line)
             exact == ExactMatches(args.candidate_list, manual)
         IN Read(line,
                 IF manual = <<>> THEN FirstMenu
                 ELSE IF exact # {}
                      THEN Return(Pair(args.candidate_list[FirstOf(exact)].row,
                                       args.candidate_list[FirstOf(exact)].name))
                 ELSE GoOn("use", ic.idx, ic.via, manual))

Rankings_use ==
    /\ Waiting("rankings", "use")
    /\ \E line \in Lines :
         Read(line,
              IF lower(strip(line)) \in ConfirmYes THEN Return(Pair(NoRow, ic.text))
              ELSE GoOn("manual", ic.idx, ic.via, <<>>))

Rankings_next ==
    /\ Waiting("rankings", "next")
    /\ \E line \in Lines :
         LET pick_ans == lower(strip(line))
             top == args.candidate_list
         IN Read(line,
                 IF pick_ans \in AcceptAnswers THEN Return(Pair(top[ic.idx].row, top[ic.idx].name))
                 ELSE IF pick_ans = <<"s">> THEN GoOn("show", ic.idx, "next", <<>>)
                 ELSE IF pick_ans = <<"e">> THEN GoOn("manual", ic.idx, "next", <<>>)
                 ELSE IF pick_ans \in QuitAnswers THEN Return(NoMatch)
                 ELSE NextCandidate(ic.idx))

\* the reference lists and scraped names the resolvers are called with
ConfirmNames == {<<"A">>, <<"a", " ", "b">>}
NameLists(n) ==
    UNION {{[i \in 1..k |-> [row |-> i + 2, name |-> f[i], conf |-> <<>>]] :
                f \in [1..k -> ConfirmNames]} : k \in 0..n}
ScrapedNames == {<<"a">>, <<"a", " ", "b">>}

InitConfirm ==
    /\ WriterAtRest
    /\ args \in {[fn |-> "standings", scraped_name |-> sn, universities |-> us,
                  candidate_list |-> cl] :
                    sn \in ScrapedNames, us \in NameLists(MaxEntities),
                    cl \in {<<>>}} \cup
                {[fn |-> "standings", scraped_name |-> sn, universities |-> us,
                  candidate_list |-> find_best_candidates(sn, us, 10, <<>>)] :
                    sn \in ScrapedNames, us \in NameLists(MaxEntities)} \cup
                {[fn |-> "rankings", scraped_name |-> sn, universities |-> us,
                  candidate_list |-> ScoredAgainst(sn, us)] :
                    sn \in ScrapedNames, us \in NameLists(MaxEntities) \ {<<>>}}
    /\ out = NoOut
    /\ ic = NoConfirm

NextConfirm ==
    \/ interactive_confirm
    \/ Confirm_menu
    \/ Confirm_show
    \/ Confirm_manual
    \/ Confirm_fuzzy
    \/ Confirm_partial
    \/ Confirm_partial_pick
    \/ Rankings_interactive_confirm
    \/ Rankings_menu
    \/ Rankings_show
    \/ Rankings_manual
    \/ Rankings_use
    \/ Rankings_next

SpecConfirm == InitConfirm /\ [][NextConfirm]_vars

\* ------------------------------------------------------------------ C1
\* the cap holds in every 60-second window that ends at a store write
C1_WindowCap ==
    \A i \in DOMAIN sheet :
        Cardinality(WritesWithin(sheet[i].t)) <= WRITE_LIMIT_PER_MIN

\* a call made while the window is full is refused and leaves the store alone
C1_LimitSignal ==
    (/\ Len(calls') = Len(calls) + 1
     /\ Cardinality(WritesWithin(now)) >= WRITE_LIMIT_PER_MIN)
    => (/\ calls'[Len(calls')].res = "limit"
        /\ sheet' = sheet)

Reported == {calls[i].value : i \in {k \in DOMAIN calls : calls[k].res = "fail"}}

\* the values of the writes handed to update_university_record, for the
\* calls that have returned
Handed == UNION {Range(results[i].values) : i \in DOMAIN results}

\* C2: every field write handed to update_university_record or held in
\* pending_writes is performed on the store, or is present in the
\* pending_writes of the checkpoint file, or is reported as failed; no write
\* disappears without one of these outcomes.
C2_NoWriteDropped ==
    \A v \in Handed \cup PendingValues(startPending) :
        \/ v \in Performed
        \/ v \in PendingValues(file.pending_writes)
        \/ v \in Reported

\* ------------------------------------------------------------------ C3
\* the values of the calls that flush_pending_writes made in this run
RunFlushValues ==
    LET s == SelectSeq(calls, LAMBDA c : c.run = run /\ c.by = "flush")
    IN [k \in 1..Len(s) |-> s[k].value]

\* the first write of each group of a pending list
GroupHeads(pending) == [g \in 1..Len(pending) |-> pending[g].writes[1].value]

\* update_university_record has attempted a write in this run
NewWorkStarted == \E i \in DOMAIN calls : calls[i].run = run /\ calls[i].by = "update"

\* C3 (as amended): at the start of a run with pending writes, the writer
\* attempts every previously pending group, in the order in which the groups
\* were deferred, before it attempts any new write; a group deferred inside
\* a run is not attempted again in that run.
C3_FlushBeforeNewWork ==
    /\ \A g, h \in DOMAIN file.pending_writes :
           g < h => GroupHeads(file.pending_writes)[g] < GroupHeads(file.pending_writes)[h]
    /\ NewWorkStarted =>
           /\ SelectSeq(RunFlushValues,
                        LAMBDA v : v \in Range(GroupHeads(startPending)))
                = GroupHeads(startPending)
           /\ \A i \in DOMAIN calls :
                  (calls[i].run = run /\ calls[i].by = "update")
                  => \A j \in DOMAIN calls :
                         (calls[j].run = run /\ calls[j].by = "flush") => j < i

\* a run that flushed two pending groups and then wrote a new record
C3_Witness ==
    /\ Len(startPending) >= 2
    /\ \E i \in DOMAIN calls :
           calls[i].run = run /\ calls[i].by = "update" /\ calls[i].res = "ok"

\* a new record is written on the store only when every group that is
\* pending at that moment was attempted by the flush of this run
C3_Step ==
    (pc = "update" /\ Len(sheet') > Len(sheet))
    => \A g \in DOMAIN progress.pending_writes :
           GroupHeads(progress.pending_writes)[g] \in Range(RunFlushValues)

\* C3 (as stated): whenever pending_writes is non-empty, also after a
\* deferral inside a run, every pending group is attempted before a new
\* write is performed on the store.
C3_Original == [][C3_Step]_vars

\* ------------------------------------------------------------------ C4
\* the writes of a pending list, in order
Flatten(pending) ==
    LET F[n \in 0..Len(pending)] ==
            IF n = 0 THEN <<>>
            ELSE F[n - 1] \o [k \in 1..Len(pending[n].writes) |->
                                 pending[n].writes[k].value]
    IN F[Len(pending)]

\* after a rate-limited write of a flush, no later write of that flush
\* reaches the rate check with room in the window
C4_NoLaterAttempt ==
    (pc = "flush" /\ flushLimited /\ Len(calls') > Len(calls))
    => calls'[Len(calls')].res = "limit"

\* when a flush ends, pending_writes holds the writes not performed, in order
C4_Remainder ==
    (pc = "flush" /\ pc' = "fetch")
    => Flatten(file'.pending_writes)
         = SelectSeq(Flatten(startPending), LAMBDA v : v \notin Performed)

\* C4: when a write inside flush_pending_writes is rate-limited, the flush
\* stops: no store write is attempted for a later pending group in that
\* flush, and pending_writes afterwards holds exactly the writes not
\* performed, in their original order.
C4_FlushStops == [][C4_NoLaterAttempt /\ C4_Remainder]_vars

\* ------------------------------------------------------------------ C5
\* one rate-limited call of update_university_record
C5_Step ==
    (/\ pc = "update"
     /\ Len(calls') > Len(calls)
     /\ calls'[Len(calls')].res = "limit")
    => /\ Len(results') = Len(results) + 1
       /\ results'[Len(results')].ok = FALSE
       /\ results'[Len(results')].row = cur.row
       /\ Len(file'.pending_writes) = Len(file.pending_writes) + 1
       /\ SubSeq(file'.pending_writes, 1, Len(file.pending_writes)) = file.pending_writes
       /\ LET g == file'.pending_writes[Len(file'.pending_writes)]
          IN /\ g.row = cur.row
             /\ g.writes = SelectSeq(cur.writes, LAMBDA w : w.value \notin Performed)
             /\ g.writes # <<>>
             /\ g.writes[1].value = calls'[Len(calls')].value

\* C5: when update_university_record is rate-limited at a field of a row, it
\* returns the not-completed result and the pending_writes of the checkpoint
\* gains one group for that row, holding the refused field and the later
\* fields of the row in order and none of the fields already written; the
\* groups deferred before it stay, and a later record that is refused is
\* appended in the same way.
C5_Deferral == [][C5_Step]_vars

\* two records of one run deferred one after the other, the first of them
\* after some of its fields were written
C5_Witness ==
    /\ Len(file.pending_writes) >= 2
    /\ Len(file.pending_writes[1].writes) < 3
    /\ Len(results) >= 2
    /\ results[1].run = results[2].run
    /\ ~results[1].ok /\ ~results[2].ok
    /\ Reported = {}

\* ------------------------------------------------------------------ C6
\* the results of the calls of update_university_record made in this run
RunResults == SelectSeq(results, LAMBDA r : r.run = run)

\* the records of this run for which no mapping was confirmed
RunSkipped == SelectSeq(skipped, LAMBDA r : r.run = run)

\* C6: a write failure in update_university_record stops only the remaining
\* field writes of that row: the call returns False, no later field of the
\* row is attempted, and the batch loop goes on, so that a run that ends has
\* handed every scraped record that the operator did not skip to
\* update_university_record.
C6_FailureIsLocal ==
    /\ pc = "done" => Len(RunResults) + Len(RunSkipped) = batchLen
    /\ \A i \in DOMAIN calls :
           (calls[i].by = "update" /\ calls[i].res = "fail")
           => \A k \in DOMAIN results :
                  calls[i].value \in Range(results[k].values)
                  => /\ ~results[k].ok
                     /\ \A j \in DOMAIN calls :
                            j > i => calls[j].value \notin Range(results[k].values)

\* a run that ended after its first record failed and its second was written
C6_Witness ==
    /\ pc = "done"
    /\ Len(RunResults) = 2
    /\ RunSkipped = <<>>
    /\ ~RunResults[1].ok
    /\ RunResults[1].values[1] \in Reported
    /\ RunResults[2].values[1] \in Performed

ResumeValues == {1, 2, 3}

\* until it is performed, a persisted write stays in the checkpoint file
C8_NoneVanishes ==
    \A v \in ResumeValues :
        v \in Performed \/ v \in PendingValues(file.pending_writes)

C9_Step ==
    (/\ pc = "flush"
     /\ Len(calls') > Len(calls)
     /\ Cardinality(WritesWithin(now)) < WRITE_LIMIT_PER_MIN)
    => /\ calls'[Len(calls')].res # "limit"
       /\ calls'[Len(calls')].res = "ok"
             => /\ Len(sheet') = Len(sheet) + 1
                /\ sheet'[Len(sheet')].value = calls'[Len(calls')].value
                /\ sheet'[Len(sheet')].t = now

\* once the flush has ended, the writes it performed are no longer pending
C9_Removed ==
    pc \in {"fetch", "loop", "update", "done"}
    => \A i \in DOMAIN calls :
           (calls[i].run = run /\ calls[i].by = "flush" /\ calls[i].res = "ok")
           => calls[i].value \notin PendingValues(file.pending_writes)

\* C9: a deferred write that is retried when fewer than WRITE_LIMIT_PER_MIN
\* store writes lie within the last 60 seconds is not rate-limited; when the
\* store accepts it, it is performed and, once the flush has ended, it is no
\* longer in pending_writes.
C9_RetryAfterAging == [][C9_Step]_vars /\ []C9_Removed

\* a write refused in one run and performed by the flush of the next run,
\* more than 60 seconds after the writes that filled the window
C9_Witness ==
    /\ pc = "fetch"
    /\ \E i, j \in DOMAIN calls :
           /\ i < j
           /\ calls[i].res = "limit"
           /\ calls[j].value = calls[i].value
           /\ calls[j].by = "flush"
           /\ calls[j].res = "ok"
    /\ \E k \in DOMAIN sheet : now - sheet[k].t > window

\* ----------------------------------------------------------------- C10
\* C10: with a cap of 2 writes per 60 seconds and an empty window, three
\* single-field writes to the distinct rows 3, 4 and 5, issued one after the
\* other within one second and accepted by the store, end with writes 1 and
\* 2 performed and write 3 refused with 'limit' and present in the
\* pending_writes of the checkpoint file.
C10_ThreeWrites ==
    (/\ WRITE_LIMIT_PER_MIN = 2
     /\ run = 1
     /\ pc = "fetch"
     /\ now <= 1
     /\ Reported = {})
    => /\ [k \in 1..Len(calls) |-> calls[k].res] = <<"ok", "ok", "limit">>
       /\ [k \in 1..Len(sheet) |-> <<sheet[k].row, sheet[k].value>>]
             = << <<3, 1>>, <<4, 2>> >>
       /\ file.pending_writes
             = << [row |-> 5, writes |-> <<[col |-> COL_CONFERENCE_STANDING, value |-> 3]>>] >>

\* the first flush of the three pending writes has ended within one second,
\* the store having accepted every write that reached it
C10_Witness ==
    /\ run = 1
    /\ pc = "fetch"
    /\ now <= 1
    /\ Reported = {}
    /\ Len(calls) = 3

\* ----------------------------------------------------------------- C11
\* C11: the standings resolver called with an empty candidate list and a
\* non-empty reference list does not return before the operator has been
\* prompted, and when the operator has typed, at the manual-name prompt, a
\* name that equals a reference entity's name, it returns that entity's
\* (row, name).
C11_EmptyListAllowsManual ==
    (/\ args.fn = "standings"
     /\ ic # NoConfirm
     /\ args.candidate_list = <<>>
     /\ args.universities # <<>>)
    => /\ out # NoOut => ic.n > 0
       /\ (ic.at = "manual" /\ ExactMatches(args.universities, ic.last) # {})
          => \E i \in DOMAIN args.universities :
                 out = Returned(Pair(args.universities[i].row, args.universities[i].name))

\* ----------------------------------------------------------------- C12
\* a line that is no selection from a list of limit entries: not a decimal
\* number, or a number outside 1..limit
NoSelection(line, limit) ==
    LET pick == strip(line)
    IN \/ pick = <<>>
       \/ \E i \in DOMAIN pick : pick[i] \notin {"0", "1", "2", "9"}
       \/ int(pick) < 1
       \/ int(pick) > limit

\* a line that is none of the tokens of the menu the resolver waits at
NoMenuToken(fn, line) ==
    LET ans == lower(strip(line))
    IN IF fn = "standings"
       THEN ans \notin {<<>>, <<"y">>, <<"y", "e", "s">>, <<"n">>, <<"n", "e", "x", "t">>,
                        <<"s">>, <<"e">>, <<"p">>, <<"q">>, <<"s", "k", "i", "p">>}
       ELSE ans \notin {<<>>, <<"y">>, <<"y", "e", "s">>, <<"n">>, <<"n", "o">>,
                        <<"s">>, <<"e">>, <<"q">>, <<"q", "u", "i", "t">>}

\* the number of entries the operator can pick from at a selection prompt
ShownAt(prompt) ==
    IF prompt = "show" THEN Min(10, Len(args.candidate_list))
    ELSE IF prompt = "fuzzy" THEN Min(10, Len(args.universities))
    ELSE Len(Filtered(ic.text))

C12_Step ==
    (/\ ic # NoConfirm
     /\ out = NoOut
     /\ ic' # ic
     /\ ic.pc # "none"
     /\ \/ ic.pc \in {"show", "fuzzy", "partial_pick"} /\ NoSelection(ic'.last, ShownAt(ic.pc))
        \/ ic.pc = "menu" /\ NoMenuToken(args.fn, ic'.last))
    => /\ out' = NoOut
       /\ ic'.pc \in {"menu", "next"}

\* C12: in interactive_confirm, a selection that is out of range or
\* non-numeric (at the show-list, manual-fuzzy and partial-search prompts)
\* and an unrecognised menu token never select a candidate: the resolver
\* prompts again.
C12_Reprompts == [][C12_Step]_vars

\* ----------------------------------------------------------------- C13
\* the pair names one single entity of the candidate list or of the
\* reference list
NamesEntity(v) ==
    /\ ~v.none
    /\ \/ \E i \in DOMAIN args.candidate_list :
              v.row = args.candidate_list[i].row /\ v.name = args.candidate_list[i].name
       \/ \E i \in DOMAIN args.universities :
              v.row = args.universities[i].row /\ v.name = args.universities[i].name

\* the claim as stated: every call of interactive_confirm, of either
\* script, that returns, returns the no-match outcome or the (row, name) of
\* one entity of the candidate list or of the reference list
C13_Original ==
    out.kind = "returned" => (out.val = NoMatch \/ NamesEntity(out.val))

\* C13: a call of the standings resolver that returns, returns the no-match
\* outcome or the (row, name) of one entity of the candidate list or of the
\* reference list; a call of the rankings resolver that returns, returns
\* the no-match outcome, such a pair, or a pair without a row identifier
\* that holds a manually typed name which equals no candidate's name and
\* which the operator confirmed with y or yes.
C13_PairOrManual ==
    out.kind = "returned"
    => \/ out.val = NoMatch
       \/ NamesEntity(out.val)
       \/ /\ args.fn = "rankings"
          /\ ~out.val.none
          /\ out.val.row = NoRow
          /\ out.val.name # <<>>
          /\ strip(out.val.name) = out.val.name
          /\ \A i \in DOMAIN args.candidate_list :
                 lower(strip(args.candidate_list[i].name)) # lower(out.val.name)
          /\ ic.at = "use"
          /\ lower(strip(ic.last)) \in {<<"y">>, <<"y", "e", "s">>}

\* the rankings resolver has returned a confirmed manual name, reached from
\* the walk over the next candidates
C13_Witness ==
    /\ args.fn = "rankings"
    /\ out.kind = "returned"
    /\ ~out.val.none
    /\ out.val.row = NoRow
    /\ out.val.name = <<"b">>
    /\ ic.was = "next"

\* ----------------------------------------------------------------- C14
\* the values of the records for which the resolver returned no match
SkippedValues == UNION {Range(skipped[i].values) : i \in DOMAIN skipped}

\* the step of main that takes a no-match result leaves the store, the
\* progress dict and the checkpoint file as they are
C14_SkipStep ==
    Len(skipped') > Len(skipped)
    => /\ sheet' = sheet
       /\ calls' = calls
       /\ progress' = progress
       /\ file' = file
       /\ results' = results

\* no field of such a record is ever handed to the writer
C14_NeverWritten ==
    \A v \in SkippedValues :
        /\ v \notin Performed
        /\ v \notin PendingValues(file.pending_writes)
        /\ v \notin PendingValues(progress.pending_writes)
        /\ \A i \in DOMAIN calls : calls[i].value # v

\* C14: when the resolver returns no match for a scraped record, no store
\* write is issued for that record, and write_timestamps and pending_writes
\* are left unchanged.
C14_SkipIsFrame == [][C14_SkipStep]_vars /\ []C14_NeverWritten

\* a record skipped while writes were pending and the window held writes,
\* followed by a record of the same run that was written
C14_Witness ==
    /\ \E i \in DOMAIN skipped :
           /\ skipped[i].run = run
           /\ \E k \in DOMAIN calls :
                  /\ calls[k].run = run
                  /\ calls[k].by = "update"
                  /\ calls[k].res = "ok"
                  /\ calls[k].value > skipped[i].values[1]
    /\ file.write_timestamps # <<>>
    /\ file.pending_writes # <<>>

\* ----------------------------------------------------------------- C15
\* C15: for the reference list [(3, Duke University, ACC), (4, Duke, ACC),
\* (5, UNC, ACC)], scraped name Duke and preferred conference ACC,
\* find_best_candidates returns row 4 as the first candidate.
C15_DukeFirst ==
    (out.kind = "find_best_candidates" /\ args = DukeArgs)
    => /\ out.val # <<>>
       /\ out.val[1].row = 4

\* the ranker has returned the three candidates of that list
C15_Witness ==
    /\ out.kind = "find_best_candidates"
    /\ args = DukeArgs
    /\ Len(out.val) = 3

\* ----------------------------------------------------------------- C16
\* C16: find_best_candidates returns its candidates in non-increasing score
\* order, candidates of equal score in their reference-list order, and the
\* result is exactly the first min(top_n, number of reference entities)
\* elements of that ordering, so that no omitted entity has a higher score
\* than a returned one.
C16_Ranked ==
    out.kind = "find_best_candidates"
    => LET us == args.universities
           res == out.val
           sc(i) == ScoreOf(args.scraped_name, us[i], args.preferred_conf).score
           pos(k) == CHOOSE i \in DOMAIN us : us[i].row = res[k].row
           want == IF args.top_n < Len(us) THEN args.top_n ELSE Len(us)
       IN /\ Len(res) = want
          /\ \A k \in DOMAIN res :
                 \E i \in DOMAIN us : /\ us[i].row = res[k].row
                                      /\ us[i].name = res[k].name
                                      /\ FracEq(res[k].score, sc(i))
          /\ \A k \in DOMAIN res : \A l \in DOMAIN res :
                 k < l => \/ FracLess(res[l].score, res[k].score)
                          \/ /\ FracEq(res[k].score, res[l].score)
                             /\ pos(k) < pos(l)
          /\ \A i \in DOMAIN us :
                 (\A k \in DOMAIN res : res[k].row # us[i].row)
                 => \A k \in DOMAIN res :
                        \/ FracLess(sc(i), res[k].score)
                        \/ /\ FracEq(sc(i), res[k].score)
                           /\ pos(k) < i

\* three entities, the first two of three with equal scores returned and
\* the third of them, scoring as high, left out
C16_Witness ==
    /\ out.kind = "find_best_candidates"
    /\ Len(args.universities) = 3
    /\ args.top_n = 2
    /\ Len(out.val) = 2
    /\ FracEq(out.val[1].score, out.val[2].score)
    /\ FracEq(out.val[2].score,
              ScoreOf(args.scraped_name, args.universities[3], args.preferred_conf).score)
    /\ args.universities[1].name # args.universities[2].name

\* ----------------------------------------------------------------- C17
\* C17: every score returned by find_best_candidates lies in [0,1]; it
\* equals min(1.0, base + 0.15) when the preferred conference is non-empty
\* and equals the entity's conference, both taken without case and
\* surrounding whitespace, and it equals the base similarity otherwise.
C17_Score ==
    out.kind = "find_best_candidates"
    => \A k \in DOMAIN out.val :
           LET u == CHOOSE u \in Range(args.universities) : u.row = out.val[k].row
               score == out.val[k].score
               base == combined_similarity(args.scraped_name, u.name)
               pref == lower(strip(args.preferred_conf))
               same == pref # <<>> /\ lower(strip(u.conf)) = pref
           IN /\ score.d > 0
              /\ score.n >= 0
              /\ score.n <= score.d
              /\ IF same
                 THEN IF 20 * base.n + 3 * base.d > 20 * base.d
                      THEN score.n = score.d
                      ELSE score.n * 20 * base.d = (20 * base.n + 3 * base.d) * score.d
                 ELSE score.n * base.d = base.n * score.d

\* a candidate of the preferred conference whose base similarity is 1.0,
\* next to one whose conference is empty
C17_Witness ==
    /\ out.kind = "find_best_candidates"
    /\ args.scraped_name = <<"a">>
    /\ args.preferred_conf = <<"a", " ">>
    /\ \E k \in DOMAIN out.val : \E l \in DOMAIN out.val :
           /\ args.universities[out.val[k].row - 2] =
                  [row |-> out.val[k].row, name |-> <<"A">>, conf |-> <<"A">>]
           /\ args.universities[out.val[l].row - 2].conf = <<>>

\* ----------------------------------------------------------------- C18
\* the name has an alphanumeric character
HasWordChar(s) == \E i \in DOMAIN s : s[i] \notin NonWord

\* C18 (as stated): for every non-empty string a, combined_similarity(a, a)
\* equals 1.0.
C18_Original ==
    (/\ out.kind = "combined_similarity"
     /\ args.a = args.b
     /\ args.a # <<>>)
    => FracEq(out.val, One)

\* C18 (as amended): for every string a with at least one alphanumeric
\* token, combined_similarity(a, a) equals 1.0; for a string without such a
\* token (the empty string included) it equals 0.4.
C18_Reflexive ==
    (out.kind = "combined_similarity" /\ args.a = args.b)
    => IF HasWordChar(args.a) THEN FracEq(out.val, One)
       ELSE FracEq(out.val, [n |-> 2, d |-> 5])

\* a name of two tokens in mixed case compared with itself
C18_Witness ==
    /\ out.kind = "combined_similarity"
    /\ args.a = args.b
    /\ args.a = <<"A", " ", "b">>

\* ----------------------------------------------------------------- C19
\* C19: for all strings a and b, combined_similarity(a, b) equals
\* combined_similarity(b, a), the score being 0.4 times the sequence
\* similarity plus 0.6 times the token Jaccard similarity.
C19_Symmetric ==
    out.kind = "combined_similarity"
    => /\ FracEq(out.val, combined_similarity(args.b, args.a))
       /\ LET seq == ratio(lower(args.a), lower(args.b))
              j == token_jaccard(args.a, args.b)
          IN 10 * out.val.n * seq.d * j.d
               = out.val.d * (4 * seq.n * j.d + 6 * j.n * seq.d)

\* ----------------------------------------------------------------- C20
\* C20: when either argument is the empty string or has no alphanumeric
\* token, token_jaccard is 0, and combined_similarity of the empty string
\* with any other string is 0.
C20_EmptyIsZero ==
    /\ (/\ out.kind = "token_jaccard"
        /\ ~HasWordChar(args.a) \/ ~HasWordChar(args.b))
       => out.val.n = 0
    /\ (/\ out.kind = "combined_similarity"
        /\ (args.a = <<>>) # (args.b = <<>>))
       => out.val.n = 0

\* the empty string compared with a name of two tokens
C20_Witness ==
    /\ out.kind = "combined_similarity"
    /\ args.a = <<>>
    /\ args.b = <<"a", " ", "b">>

\* ----------------------------------------------------------------- C28
\* a call of safe_update_cell was made in this step and was refused or failed
C28_NoWrite ==
    /\ Len(calls') = Len(calls) + 1
    /\ calls'[Len(calls')].res # "ok"

\* the group update_university_record defers when its call is refused
C28_Deferred ==
    /\ calls'[Len(calls')].by = "update"
    /\ calls'[Len(calls')].res = "limit"
    /\ progress'.pending_writes =
           Append(progress.pending_writes,
                  [row |-> cur.row, writes |-> SubSeq(cur.writes, ui, Len(cur.writes))])
    /\ file' = progress'

C28_Step ==
    /\ C28_NoWrite
       => /\ progress'.write_timestamps = progress.write_timestamps
          /\ file'.write_timestamps = file.write_timestamps
          /\ sheet' = sheet
          /\ \/ progress'.pending_writes = progress.pending_writes /\ file' = file
             \/ C28_Deferred
    /\ file'.write_timestamps # file.write_timestamps
       => /\ Len(sheet') = Len(sheet) + 1
          /\ sheet'[Len(sheet')].t = now
          /\ file'.write_timestamps[Len(file'.write_timestamps)] = now
          /\ Len(calls') = Len(calls) + 1
          /\ calls'[Len(calls')].res = "ok"

\* C28: a safe_update_cell attempt that is rate-limited, or whose store
\* write raises, leaves write_timestamps and pending_writes of the progress
\* state and of the checkpoint file as they are (pending_writes changes only
\* by the group that update_university_record defers after a refusal), and
\* a timestamp is appended only by a successful store write.
C28_FailureIsFree == [][C28_Step]_vars

\* one attempt was refused and one failed, and a write was made after them
C28_Witness ==
    /\ \E i \in DOMAIN calls : \E j \in DOMAIN calls : \E k \in DOMAIN calls :
           /\ calls[i].res = "limit"
           /\ calls[j].res = "fail"
           /\ calls[k].res = "ok"
           /\ i < k
           /\ j < k

\* ----------------------------------------------------------------- C30
\* the standings resolver waits at one of its prompts
C30_Prompting ==
    /\ args.fn = "standings"
    /\ ic # NoConfirm
    /\ ic.pc # "done"

\* the index of the suggested candidate, counted from 1 in the model and
\* from 0 in the code
C30_InRange ==
    C30_Prompting => (1 <= ic.idx /\ ic.idx <= Len(args.candidate_list))

C30_Step ==
    (C30_Prompting /\ ic' # ic)
    => IF ic.pc = "menu" /\ lower(strip(ic'.last)) \in {<<"n">>, <<"n", "e", "x", "t">>}
       THEN IF ic.idx = Len(args.candidate_list)
            THEN out' = Returned(NoMatch)
            ELSE /\ out' = NoOut
                 /\ ic'.pc = "menu"
                 /\ ic'.idx = ic.idx + 1
       ELSE ic'.pc # "done" => ic'.idx = ic.idx

\* C30: in interactive_confirm of scrape_conference_standings.py the index
\* of the suggested candidate stays within the candidate list, it never
\* decreases and grows by one per n answer and by nothing else, and an n
\* answer on the last candidate returns no match, so the resolver returns
\* after at most len(candidate_list) n answers.
C30_IndexAdvances == []C30_InRange /\ [][C30_Step]_vars

\* three candidates, and the third n answer in a row has returned no match
C30_Witness ==
    /\ args.fn = "standings"
    /\ Len(args.candidate_list) = 3
    /\ out = Returned(NoMatch)
    /\ ic.n = 3
    /\ ic.at = "menu"
    /\ lower(strip(ic.last)) = <<"n">>

\* ----------------------------------------------------------------- C27
\* the positions of the reference entities whose name is the scraped name,
\* ignoring case
C27_Exact ==
    {i \in DOMAIN args.universities :
         lower(args.universities[i].name) = lower(args.scraped_name)}

\* the claim as stated: if some reference entity's name equals the scraped
\* name ignoring case, the first candidate is an entity with that name
C27_Original ==
    (out.kind = "find_best_candidates" /\ C27_Exact # {})
    => /\ out.val # <<>>
       /\ lower(out.val[1].name) = lower(args.scraped_name)

\* the entity at position i is of the preferred conference and its base
\* similarity is at least 0.85, so that the bonus lifts it to the cap
C27_LiftedToCap(i) ==
    LET u == args.universities[i]
        base == combined_similarity(args.scraped_name, u.name)
        pref == lower(strip(args.preferred_conf))
    IN /\ pref # <<>>
       /\ lower(strip(u.conf)) = pref
       /\ 20 * base.n >= 17 * base.d

\* C27: if some reference entity's name equals the scraped name ignoring
\* case and holds a letter or digit, the first candidate has the score 1.0
\* and is the first entity of the reference list that scores 1.0: an entity
\* with that name, unless an entity of the preferred conference whose base
\* similarity is at least 0.85 stands before every such entity in the list.
C27_ExactOrLifted ==
    (/\ out.kind = "find_best_candidates"
     /\ C27_Exact # {}
     /\ HasWordChar(args.scraped_name))
    => /\ out.val # <<>>
       /\ out.val[1].score.n = out.val[1].score.d
       /\ \/ out.val[1].row = args.universities[FirstOf(C27_Exact)].row
          \/ \E i \in DOMAIN args.universities :
                 /\ out.val[1].row = args.universities[i].row
                 /\ i < FirstOf(C27_Exact)
                 /\ C27_LiftedToCap(i)
                 /\ \A j \in 1..(i - 1) : ~C27_LiftedToCap(j)

\* "UC Davis" is in the sheet and "UC-Davis" is returned for it
C27_Witness ==
    /\ out.kind = "find_best_candidates"
    /\ args = DavisArgs
    /\ out.val[1].row = 3
    /\ C27_Exact = {2}

\* ------------------------------------------------- stale pending writes
\* The checkpoint file left by earlier runs in which the record of row 4 was
\* refused at its first field, so that its three writes are pending; the two
\* writes recorded in it were made 61 seconds before the clock of the model
\* starts.  The values of the model are numbered from that record on.
InitStale ==
    /\ now = 0
    /\ sheet = <<>>
    /\ progress = EmptyProgress
    /\ file = [write_timestamps |-> <<0 - window - 1, 0 - window - 1>>,
               pending_writes |-> << [row |-> 4, writes |-> RecordWrites(1)] >>]
    /\ pc = "start"
    /\ run = 1
    /\ fi = 1
    /\ fj = 1
    /\ remaining = <<>>
    /\ flushLimited = FALSE
    /\ batchLen = 0
    /\ idx = 0
    /\ cur = NoRecord
    /\ ui = 1
    /\ nextVal = 4
    /\ startPending = <<>>
    /\ calls = <<>>
    /\ results = <<>>
    /\ skipped = <<>>
    /\ confs = NoConfs
    /\ MatchIdle

\* the runs that start from the checkpoint file of InitStale
SpecStale == InitStale /\ [][Next]_vars

\* C24: a pending write deferred in an earlier run is never performed on a
\* cell after a newer write to the same cell has been performed.  Values are
\* numbered in the order in which they were issued, so the writes performed
\* on one cell must carry values that never decrease.
C24_NoStaleWrite ==
    \A i, j \in DOMAIN sheet :
        (i < j /\ sheet[i].row = sheet[j].row /\ sheet[i].col = sheet[j].col)
            => sheet[i].value <= sheet[j].value

\* ------------------------------------------ interrupts inside a file write
\* What main reads from a checkpoint file whose rewrite was cut short:
\* open(progress_file, 'w') has emptied the file and json.dump has written a
\* part of the text at most, json.load raises and main takes progress = {}.
TornFile == EmptyProgress

\* flush_pending_writes: the operator interrupts the run while safe_update_cell,
\* after a write that the store performed, is rewriting the checkpoint file;
\* KeyboardInterrupt passes the 'except Exception' around the dump.  The
\* operator then runs the script again.
InterruptInDump ==
    /\ pc = "flush"
    /\ fi <= Len(progress.pending_writes)
    /\ run < MaxRuns
    /\ LET item == progress.pending_writes[fi]
           w == item.writes[fj]
           r == safe_update_cell(progress.write_timestamps, now, TRUE)
       IN /\ r.res = "ok"
          /\ calls' = Append(calls, [value |-> w.value, res |-> r.res,
                                     by |-> "flush", run |-> run])
          /\ sheet' = Append(sheet, [row |-> item.row, col |-> w.col,
                                     value |-> w.value, t |-> now])
    /\ file' = TornFile
    /\ run' = run + 1
    /\ pc' = "start"
    /\ ProcessGone
    /\ UNCHANGED <<now, nextVal, results>>
    /\ UNCHANGED <<matchVars, skipped, confs>>

\* flush_pending_writes: the operator interrupts the run while the function
\* is rewriting the checkpoint file with the remaining pending writes, and
\* runs the script again
InterruptInFinalDump ==
    /\ pc = "flush"
    /\ fi > Len(progress.pending_writes)
    /\ run < MaxRuns
    /\ file' = TornFile
    /\ run' = run + 1
    /\ pc' = "start"
    /\ ProcessGone
    /\ UNCHANGED <<now, sheet, nextVal, calls, results>>
    /\ UNCHANGED <<matchVars, skipped, confs>>

NextTorn ==
    \/ Next
    \/ InterruptInDump
    \/ InterruptInFinalDump

\* the runs that start from the checkpoint file of InitResume and that the
\* operator may interrupt between two statements or inside a file write
SpecTorn == InitResume /\ [][NextTorn]_vars

\* an interruption during flush_pending_writes keeps in the file every
\* pending write that the store has not received
C25_Interrupted ==
    (pc = "flush" /\ pc' = "start")
        => (PendingValues(progress.pending_writes) \ Performed')
               \subseteq PendingValues(file'.pending_writes)

\* C25: if the process is interrupted at any point during flush_pending_writes,
\* the checkpoint file still lists every pending write that has not yet been
\* performed on the store.
C25_NothingLost == [][C25_Interrupted]_vars

\* ------------------------------------------------------------ get_llm_data
\* get_llm_data of camp_scraper.py.  The content of the reply is a sequence
\* of tokens: a fence of three backticks, a word of plain text, a line break,
\* the JSON punctuation "[", "]" and ",", the JSON value null and a JSON
\* object with some of the five fields of a camp.
MaxTokens == 4      \* tokens in a reply content of arbitrary shape
MaxCamps == 3       \* elements in the array of a well-formed reply

\* the value of a field that an object does not have
Absent == "<absent>"

NoObj == [event_name |-> Absent, start_date |-> Absent, end_date |-> Absent,
          ages |-> Absent, cost |-> Absent]

\* the object of test_valid_json_parses_fields
TestCamp == [event_name |-> "Test Camp", start_date |-> "2024-06-01",
             end_date |-> "2024-06-03", ages |-> "10-18", cost |-> "$100"]

\* an object without event_name and end_date
PartialCamp == [event_name |-> Absent, start_date |-> "2024-07-01",
                end_date |-> Absent, ages |-> "", cost |-> "$50"]

Fence == [t |-> "fence", v |-> NoObj]
Text == [t |-> "text", v |-> NoObj]
Newline == [t |-> "\n", v |-> NoObj]
Open == [t |-> "[", v |-> NoObj]
Close == [t |-> "]", v |-> NoObj]
Comma == [t |-> ",", v |-> NoObj]
Null == [t |-> "null", v |-> NoObj]
Obj(o) == [t |-> "{}", v |-> o]

Tokens_ == {Fence, Text, Newline, Open, Close, Comma, Null, Obj(TestCamp), Obj(PartialCamp)}

\* llm_output.startswith(fence)
startswith_fence(s) == Len(s) > 0 /\ s[1] = Fence

\* str.strip(chars): the characters of chars are removed from both ends
RECURSIVE lstrip_tokens(_, _)
lstrip_tokens(s, chars) ==
    IF Len(s) > 0 /\ s[1] \in chars THEN lstrip_tokens(Tail(s), chars) ELSE s

RECURSIVE rstrip_tokens(_, _)
rstrip_tokens(s, chars) ==
    IF Len(s) > 0 /\ s[Len(s)] \in chars
    THEN rstrip_tokens(SubSeq(s, 1, Len(s) - 1), chars)
    ELSE s

strip_tokens(s, chars) == rstrip_tokens(lstrip_tokens(s, chars), chars)

\* llm_output.strip(backtick).strip() when the output starts with a fence
Unfenced(s) ==
    IF startswith_fence(s)
    THEN strip_tokens(strip_tokens(s, {Fence}), {Newline})
    ELSE s

\* llm_output.find("["), counted from 1; 0 when there is none
find_open(s) ==
    IF \E i \in DOMAIN s : s[i] = Open
    THEN CHOOSE i \in DOMAIN s : s[i] = Open /\ \A k \in 1..(i - 1) : s[k] # Open
    ELSE 0

\* json.loads: the position after the JSON value that starts at toks[i], and
\* 0 when no JSON value starts there.  toks holds no line breaks.
RECURSIVE ValueEnd(_, _)
RECURSIVE AfterElement(_, _)
ValueEnd(toks, i) ==
    IF i > Len(toks) THEN 0
    ELSE IF toks[i].t \in {"{}", "null"} THEN i + 1
    ELSE IF toks[i] = Open
         THEN IF i + 1 <= Len(toks) /\ toks[i + 1] = Close
              THEN i + 2
              ELSE LET e == ValueEnd(toks, i + 1)
                   IN IF e = 0 THEN 0 ELSE AfterElement(toks, e)
    ELSE 0

\* after an element of an array: "]" ends the array, "," asks for another element
AfterElement(toks, i) ==
    IF i > Len(toks) THEN 0
    ELSE IF toks[i] = Close THEN i + 1
    ELSE IF toks[i] = Comma
         THEN LET e == ValueEnd(toks, i + 1)
              IN IF e = 0 THEN 0 ELSE AfterElement(toks, e)
    ELSE 0

\* an element of the parsed list: a dict with its fields, or another value
Element(tok) == [dict |-> tok.t = "{}", v |-> tok.v]

\* the elements of the array whose "[" stands before toks[i]
RECURSIVE ElementsFrom(_, _)
ElementsFrom(toks, i) ==
    IF toks[i] = Close THEN <<>>
    ELSE LET j == IF toks[i] = Comma THEN i + 1 ELSE i
         IN <<Element(toks[j])>> \o ElementsFrom(toks, ValueEnd(toks, j))

\* json.loads(json_snippet) for a snippet that starts with "[": the list, or
\* JSONDecodeError.  White space between the tokens and after the value is
\* skipped; anything else after the value is "Extra data".
json_loads(snippet) ==
    LET toks == SelectSeq(snippet, LAMBDA x : x # Newline)
    IN IF ValueEnd(toks, 1) = Len(toks) + 1
       THEN [ok |-> TRUE, val |-> ElementsFrom(toks, 2)]
       ELSE [ok |-> FALSE, val |-> <<>>]

\* dict.get(key, default)
get(o, key, default) == IF o[key] = Absent THEN default ELSE o[key]

\* camp.update({...}) with the fields of one parsed object; details is
\* camp.get("Event Details") of the record given to get_llm_data
Updated(c, o, details) ==
    [c EXCEPT !["Event Details"] = get(o, "event_name", details),
              !["start_date"] = get(o, "start_date", ""),
              !["end_date"] = get(o, "end_date", ""),
              !["Ages / Grade Level"] = get(o, "ages", ""),
              !["Cost"] = get(o, "cost", "")]

\* a handler that leaves the cost as it was
LLMError_KeepsCost(c) ==
    [c EXCEPT !["start_date"] = "LLM Error", !["end_date"] = "LLM Error",
              !["Ages / Grade Level"] = "LLM Error"]

\* the handler of "except Exception"
LLMError(c) ==
    [c EXCEPT !["start_date"] = "LLM Error", !["end_date"] = "LLM Error",
              !["Ages / Grade Level"] = "LLM Error", !["Cost"] = "LLM Error"]

ReturnedList(c, l) == [kind |-> "get_llm_data", camp |-> c, ret |-> "list", val |-> l]
ReturnedNone(c) == [kind |-> "get_llm_data", camp |-> c, ret |-> "None", val |-> <<>>]

\* a loop that puts each new record in front of the list
RECURSIVE AdditionalCamps_Reversed(_, _, _, _)
AdditionalCamps_Reversed(c, parsed, i, addl) ==
    IF i > Len(parsed) THEN ReturnedList(c, addl)
    ELSE IF ~parsed[i].dict THEN ReturnedList(LLMError(c), addl)
    ELSE AdditionalCamps_Reversed(c, parsed, i + 1,
             <<Updated(c, parsed[i].v, c["Event Details"])>> \o addl)

\* the loop over parsed[1:]: addl_camps when every element is a dict; the
\* first element that is not raises AttributeError, and the function returns
\* the records appended so far
RECURSIVE AdditionalCamps(_, _, _, _)
AdditionalCamps(c, parsed, i, addl) ==
    IF i > Len(parsed) THEN ReturnedList(c, addl)
    ELSE IF ~parsed[i].dict THEN ReturnedList(LLMError(c), addl)
    ELSE AdditionalCamps(c, parsed, i + 1,
             Append(addl, Updated(c, parsed[i].v, c["Event Details"])))

\* parsed == []: "No camps found in LLM output" and a bare return
EmptyArray(c) == ReturnedNone([c EXCEPT !["Camp Found?"] = "No"])

\* The camp record as the function leaves it, and what the function returns.
get_llm_data(c, reply) ==
    IF reply.choices # "one"
    THEN ReturnedList(LLMError(c), <<>>)
    ELSE LET llm_output == Unfenced(reply.content)
             json_start == find_open(llm_output)
         IN IF json_start = 0
            THEN ReturnedList(LLMError(c), <<>>)
            ELSE LET parsed == json_loads(SubSeq(llm_output, json_start, Len(llm_output)))
                 IN IF ~parsed.ok
                    THEN ReturnedList(LLMError(c), <<>>)
                    ELSE IF parsed.val = <<>>
                    THEN EmptyArray(c)
                    ELSE LET found == [c EXCEPT !["Camp Found?"] = "Yes"]
                         IN IF ~parsed.val[1].dict
                            THEN ReturnedList(LLMError(found), <<>>)
                            ELSE AdditionalCamps(
                                     Updated(found, parsed.val[1].v, found["Event Details"]),
                                     parsed.val, 2, <<>>)

\* the camp record of the tests, and a record that holds a listed event
CampKeys == {"Camp Info URL", "Camp Found?", "Event Details", "start_date",
             "end_date", "Ages / Grade Level", "Cost"}
BlankCamp == [k \in CampKeys |-> IF k = "Camp Info URL" THEN "http://example.com" ELSE ""]
ListedCamp == [BlankCamp EXCEPT !["Event Details"] = "ID Camp", !["Cost"] = "$75"]

\* sequences of at most n elements of S
SeqsUpTo(S, n) == UNION {[1..k -> S] : k \in 0..n}

\* s[1], sep, s[2], sep, ...
RECURSIVE Joined(_, _)
Joined(s, sep) ==
    IF Len(s) <= 1 THEN s ELSE <<s[1]>> \o sep \o Joined(Tail(s), sep)

\* a JSON array of the given values, as the model writes it
ArrayOf(values) == <<Open>> \o Joined(values, <<Comma>>) \o <<Close>>

Prefixes == {<<>>, <<Fence>>, <<Fence, Text, Newline>>, <<Text, Newline, Fence>>}
Suffixes == {<<>>, <<Newline, Fence>>, <<Newline, Text>>}

\* the contents of the replies: every sequence of at most MaxTokens tokens,
\* and the arrays of at most MaxCamps values behind a prefix and before a suffix
Contents ==
    SeqsUpTo(Tokens_, MaxTokens)
    \cup {p \o ArrayOf(a) \o s :
            p \in Prefixes, s \in Suffixes,
            a \in SeqsUpTo({Null, Obj(TestCamp), Obj(PartialCamp)}, MaxCamps)}

\* llm_json has no "choices", an empty list of them, or one with a message
Choices == {"missing", "empty", "one"}

InitLLM ==
    /\ WriterAtRest
    /\ args \in {[fn |-> "get_llm_data", camp |-> c, reply |-> [choices |-> ch, content |-> ct]] :
                    c \in {BlankCamp, ListedCamp}, ch \in Choices, ct \in Contents}
    /\ out = NoOut
    /\ ic = NoConfirm

Call_get_llm_data ==
    /\ args.fn = "get_llm_data"
    /\ out = NoOut
    /\ out' = get_llm_data(args.camp, args.reply)
    /\ UNCHANGED <<args, ic, writerVars>>

NextLLM == Call_get_llm_data

SpecLLM == InitLLM /\ [][NextLLM]_vars

\* ------------------------------------------------------ claims C21 and C22
\* what get_llm_data hands to json.loads, <<>> when it gets that far with nothing
C21_Snippet ==
    LET llm_output == Unfenced(args.reply.content)
    IN IF find_open(llm_output) = 0 THEN <<>>
       ELSE SubSeq(llm_output, find_open(llm_output), Len(llm_output))

\* the reply parses to a JSON array whose elements are all objects
C21_Camps ==
    IF /\ args.reply.choices = "one"
       /\ C21_Snippet # <<>>
       /\ json_loads(C21_Snippet).ok
       /\ \A i \in DOMAIN json_loads(C21_Snippet).val : json_loads(C21_Snippet).val[i].dict
    THEN [i \in DOMAIN json_loads(C21_Snippet).val |-> json_loads(C21_Snippet).val[i].v]
    ELSE <<>>

\* the record c holds the fields that the object o has
C21_Holds(c, o) ==
    /\ o.event_name # Absent => c["Event Details"] = o.event_name
    /\ o.start_date # Absent => c["start_date"] = o.start_date
    /\ o.end_date # Absent => c["end_date"] = o.end_date
    /\ o.ages # Absent => c["Ages / Grade Level"] = o.ages
    /\ o.cost # Absent => c["Cost"] = o.cost

\* C21: when the reply parses to a JSON array of k >= 1 camps, get_llm_data
\* sets Camp Found? to Yes, copies the fields of the first camp into the given
\* record and returns k - 1 additional records, one for each further element
\* of the array, in the order of the array.
C21_ArrayOfCamps ==
    (out.kind = "get_llm_data" /\ C21_Camps # <<>>)
        => /\ out.camp["Camp Found?"] = "Yes"
           /\ C21_Holds(out.camp, C21_Camps[1])
           /\ out.ret = "list"
           /\ Len(out.val) = Len(C21_Camps) - 1
           /\ \A i \in DOMAIN out.val :
                 /\ C21_Holds(out.val[i], C21_Camps[i + 1])
                 /\ out.val[i]["Camp Found?"] = "Yes"
                 /\ out.val[i]["Camp Info URL"] = args.camp["Camp Info URL"]

\* a fenced reply with three camps, the second unlike the third
C21_Witness ==
    /\ out.kind = "get_llm_data"
    /\ Len(C21_Camps) = 3
    /\ args.reply.content[1] = Fence
    /\ C21_Camps[2] # C21_Camps[3]
    /\ Len(out.val) = 2

\* the reply cannot be used: no choices, no "[" in the output, or a text
\* from the first "[" on that is not JSON
C22_Unusable ==
    \/ args.reply.choices # "one"
    \/ C21_Snippet = <<>>
    \/ ~json_loads(C21_Snippet).ok

\* C22: when the reply cannot be used, get_llm_data returns an empty list,
\* sets start_date, end_date, Ages / Grade Level and Cost of the record to
\* LLM Error and leaves the other fields alone; it returns and does not raise.
C22_ErrorFields ==
    (out.kind = "get_llm_data" /\ C22_Unusable)
        => /\ out.ret = "list"
           /\ out.val = <<>>
           /\ \A k \in {"start_date", "end_date", "Ages / Grade Level", "Cost"} :
                 out.camp[k] = "LLM Error"
           /\ \A k \in {"Camp Info URL", "Camp Found?", "Event Details"} :
                 out.camp[k] = args.camp[k]

\* the reply of test_malformed_json_returns_empty for a record with a cost
C22_Witness ==
    /\ out.kind = "get_llm_data"
    /\ args.reply = [choices |-> "one", content |-> <<Open, Text, Close>>]
    /\ args.camp = ListedCamp
    /\ out.camp["Cost"] = "LLM Error"

\* ------------------------------------------- main of scrape_ncaa_rankings.py
\* One ranking (rank, scraped) of a rankings page: main builds the candidate
\* list from the entities of the target division, calls the resolver and
\* writes the rank to the row it settles on.
DEFAULT_OUTPUT_COLUMN_INDEX == 28

\* str(rank)
DecimalDigits == <<"0", "1", "2", "3", "4", "5", "6", "7", "8", "9">>
RECURSIVE str(_)
str(k) ==
    IF k < 10 THEN <<DecimalDigits[k + 1]>>
    ELSE str(k \div 10) \o <<DecimalDigits[(k % 10) + 1]>>

\* the entities main keeps for a target division: an entity with another
\* division is left out, one without a division is kept, and nothing is left
\* out when the page has no target division
InDivision(universities, target_div) ==
    SelectSeq(universities,
              LAMBDA u : ~(/\ target_div # <<>>
                           /\ u.div # <<>>
                           /\ lower(strip(u.div)) # lower(strip(target_div))))

\* a lookup that takes the first row of the sheet for whatever was typed
ManualRow_FirstRow(universities, chosen_name) ==
    universities[1].row

\* the row of the first entity whose name is the manually typed name, both
\* stripped and lower-cased; NoRow when there is none
ManualRow(universities, chosen_name) ==
    IF ExactMatches(universities, chosen_name) = {} THEN NoRow
    ELSE universities[FirstOf(ExactMatches(universities, chosen_name))].row

\* what main did with the ranking: the row it issued a write for, or NoRow
Handled(v, r) == [kind |-> "handled", val |-> v, row |-> r]

\* main: no entity of the target division, the ranking is skipped without a
\* question to the operator
Rankings_no_candidates ==
    /\ args.fn = "rankings"
    /\ args.candidate_list = <<>>
    /\ ic = NoConfirm
    /\ out = NoOut
    /\ out' = Handled(NoMatch, NoRow)
    /\ UNCHANGED <<args, ic, writerVars>>

\* main: the resolver is called with the best candidate and the candidate list
Rankings_call ==
    /\ args.candidate_list # <<>>
    /\ Rankings_interactive_confirm

\* main: the resolver returned; the ranking is skipped, or the rank is written
\* with update_sheet_cell to the chosen row, which is looked up in the whole
\* sheet when the resolver returned a manual name without a row
Rankings_update ==
    /\ args.fn = "rankings"
    /\ out.kind = "returned"
    /\ LET chosen == out.val
           chosen_row == IF chosen.none THEN NoRow
                         ELSE IF chosen.row = NoRow
                              THEN ManualRow(args.universities, chosen.name)
                              ELSE chosen.row
       IN /\ out' = Handled(chosen, chosen_row)
          /\ IF chosen_row = NoRow
             THEN UNCHANGED <<sheet, calls>>
             ELSE \E storeOk \in BOOLEAN :
                    /\ calls' = Append(calls, [value |-> str(args.rank),
                                               res |-> IF storeOk THEN "ok" ELSE "fail",
                                               by |-> "rankings", run |-> run])
                    /\ sheet' = IF storeOk
                                THEN Append(sheet, [row |-> chosen_row,
                                                    col |-> DEFAULT_OUTPUT_COLUMN_INDEX,
                                                    value |-> str(args.rank), t |-> now])
                                ELSE sheet
    /\ UNCHANGED <<args, ic>>
    /\ UNCHANGED <<now, progress, file, pc, run, flushVars, loopVars,
                   startPending, results, skipped, confs>>

\* the sheets and the pages of the rankings flow: an entity of the target
\* division, one of the same name in another division, and one without a
\* division; a page with a target division and one without
RankedEntities == { [name |-> <<"A">>, div |-> <<"a">>],
                    [name |-> <<"A">>, div |-> <<"b">>],
                    [name |-> <<"a", " ", "b">>, div |-> <<>>] }
TargetDivisions == {<<>>, <<"A">>}
Ranks == {1, 12}
RankedLists(n) ==
    UNION {{[i \in 1..k |-> [row |-> i + 2, name |-> f[i].name, div |-> f[i].div]] :
                f \in [1..k -> RankedEntities]} : k \in 1..n}

InitRankings ==
    /\ WriterAtRest
    /\ args \in {[fn |-> "rankings", scraped_name |-> <<"a">>, universities |-> us,
                  candidate_list |-> ScoredAgainst(<<"a">>, InDivision(us, td)),
                  target_div |-> td, rank |-> rk] :
                    us \in RankedLists(MaxEntities), td \in TargetDivisions,
                    rk \in Ranks}
    /\ out = NoOut
    /\ ic = NoConfirm

NextRankings ==
    \/ Rankings_no_candidates
    \/ Rankings_call
    \/ Rankings_menu
    \/ Rankings_show
    \/ Rankings_manual
    \/ Rankings_use
    \/ Rankings_next
    \/ Rankings_update

SpecRankings == InitRankings /\ [][NextRankings]_vars

\* ------------------------------------------------------------- claim C29
\* the resolver returned on a name typed by hand: at the prompt for the
\* manual name, or at the question whether to use the typed name as it is
C29_ByHand ==
    /\ out.kind = "handled"
    /\ ~out.val.none
    /\ ic.at \in {"manual", "use"}

\* the name that was typed
C29_Typed == IF ic.at = "manual" THEN ic.last ELSE out.val.name

\* the rows of the entities of the sheet that carry the typed name
C29_Rows ==
    {args.universities[i].row :
        i \in {k \in DOMAIN args.universities :
                 lower(strip(args.universities[k].name)) = lower(strip(C29_Typed))}}

\* C29: in the rankings flow a name typed by hand leads to a store write only
\* when it equals, ignoring case and surrounding white space, the name of an
\* entity of the sheet, and the rank is then written to the row of such an
\* entity; otherwise the ranking is skipped and no write is issued.
C29_ManualName ==
    C29_ByHand
        => /\ (C29_Rows = {}) => (out.row = NoRow /\ calls = <<>> /\ sheet = <<>>)
           /\ (C29_Rows # {})
                => /\ out.row \in C29_Rows
                   /\ Len(calls) = 1
                   /\ calls[1].value = str(args.rank)
                   /\ \A i \in DOMAIN sheet : sheet[i].row = out.row

\* the operator types the name of an entity of another division, confirms
\* it, and the rank is written to the row of that entity
C29_Witness ==
    /\ C29_ByHand
    /\ ic.at = "use"
    /\ out.val.row = NoRow
    /\ Len(sheet) = 1
    /\ \E i \in DOMAIN args.universities :
          /\ args.universities[i].row = sheet[1].row
          /\ args.universities[i].div = <<"b">>
          /\ args.target_div = <<"A">>
    /\ sheet[1].value = <<"1", "2">>

\* ------------------------------------------- main: the loop over conferences
\* The per-conference flow of main: after the flush, every conference of
\* conf_map_entries is skipped or scraped, its mapped entries are handed to
\* update_university_record, and the conference is marked completed.
\* confs.log holds, for every conference the loop came to, what main did.
Conferences == <<"ACC", "CCAA">>        \* the keys of conf_map_entries, in order
per_div_key == "d1_men"                 \* f"{division}_{gender}"

\* a checkpoint file without completed conferences
EmptyConfProgress == [write_timestamps |-> <<>>, pending_writes |-> <<>>,
                      completed_conferences |-> {}]

\* progress.get(per_div_key, [])
completed_list(p) == IF per_div_key \in DOMAIN p THEN p[per_div_key] ELSE {}

\* conf_name in completed_confs, or in the list under per_div_key
already_done(c) ==
    c \in confs.completed_confs \/ c \in completed_list(progress)

Logged(c, what, values) ==
    Append(confs.log, [conf |-> c, what |-> what, run |-> run,
                       force |-> confs.force_reprocess,
                       listed |-> c \in progress.completed_conferences,
                       values |-> values])

InitConference ==
    /\ now = 0
    /\ sheet = <<>>
    /\ progress = EmptyConfProgress
    /\ file = EmptyConfProgress
    /\ pc = "start"
    /\ run = 1
    /\ fi = 1
    /\ fj = 1
    /\ remaining = <<>>
    /\ flushLimited = FALSE
    /\ batchLen = 0
    /\ idx = 0
    /\ cur = NoRecord
    /\ ui = 1
    /\ nextVal = 1
    /\ startPending = <<>>
    /\ calls = <<>>
    /\ results = <<>>
    /\ skipped = <<>>
    /\ MatchIdle
    /\ confs \in {[completed_confs |-> {}, force_reprocess |-> f, next |-> 1,
                   first |-> 1, log |-> <<>>] : f \in BOOLEAN}

\* main: the loop comes to the next conference; it is skipped when it is
\* already done and --force was not given, it is passed over when it has no
\* url, no xpath or no entries, and otherwise its entries are scraped
NextConference ==
    /\ pc = "fetch"
    /\ confs.next <= Len(Conferences)
    /\ LET c == Conferences[confs.next]
       IN IF already_done(c) /\ ~confs.force_reprocess
          THEN /\ confs' = [confs EXCEPT !.next = @ + 1,
                                         !.log = Logged(c, "skipped", {})]
               /\ UNCHANGED <<pc, batchLen, idx>>
          ELSE \E n \in 0..(MaxRecords - RecordsIssued) :
                 IF n = 0
                 THEN /\ confs' = [confs EXCEPT !.next = @ + 1,
                                                !.log = Logged(c, "empty", {})]
                      /\ UNCHANGED <<pc, batchLen, idx>>
                 ELSE /\ confs' = [confs EXCEPT !.first = Len(results) + 1,
                                                !.log = Logged(c, "processed", {})]
                      /\ batchLen' = n
                      /\ idx' = 0
                      /\ pc' = "loop"
    /\ UNCHANGED <<now, sheet, progress, file, run, flushVars, cur, ui, nextVal,
                   startPending, calls, results, skipped, matchVars>>

\* the values handed to update_university_record for the current conference
ConferenceValues ==
    UNION {Range(results[i].values) : i \in confs.first..Len(results)}

\* main: the updates of the conference are over; mark this conference as
\* completed in progress and save the checkpoint file
MarkCompleted ==
    /\ pc = "loop"
    /\ idx = batchLen
    /\ LET c == Conferences[confs.next]
           done == confs.completed_confs \cup {c}
       IN /\ confs' = [confs EXCEPT !.completed_confs = done,
                                    !.next = @ + 1,
                                    !.log = Logged(c, "completed", ConferenceValues)]
          /\ progress' = [progress EXCEPT !.completed_conferences = done]
          /\ file' = progress'
    /\ pc' = "fetch"
    /\ UNCHANGED <<now, sheet, run, flushVars, loopVars, startPending, calls,
                   results, skipped, matchVars>>

\* main: the loop over the conferences is over
EndConferences ==
    /\ pc = "fetch"
    /\ confs.next > Len(Conferences)
    /\ pc' = "done"
    /\ UNCHANGED <<now, sheet, progress, file, run, flushVars, loopVars,
                   startPending, calls, results, skipped, matchVars, confs>>

\* the locals of a new run of main: completed_confs = set(), and --force as
\* the operator gives it
NewRun(f) ==
    confs' = [confs EXCEPT !.completed_confs = {}, !.force_reprocess = f,
                           !.next = 1, !.first = 1]

\* the operator runs the script again, with or without --force
RestartConferences ==
    /\ pc = "done"
    /\ run < MaxRuns
    /\ run' = run + 1
    /\ pc' = "start"
    /\ ProcessGone
    /\ \E f \in BOOLEAN : NewRun(f)
    /\ UNCHANGED <<now, sheet, file, nextVal, calls, results, skipped, matchVars>>

\* the operator interrupts the run between two writes and runs the script
\* again, with or without --force
InterruptConferences ==
    /\ pc \in {"flush", "fetch", "loop", "update"}
    /\ run < MaxRuns
    /\ run' = run + 1
    /\ pc' = "start"
    /\ ProcessGone
    /\ \E f \in BOOLEAN : NewRun(f)
    /\ UNCHANGED <<now, sheet, file, nextVal, calls, results, skipped, matchVars>>

NextConferences ==
    \/ LoadProgress
    \/ FlushWrite
    \/ FlushEnd
    \/ NextConference
    \/ NextRecord
    \/ SkipRecord
    \/ UpdateWrite
    \/ MarkCompleted
    \/ EndConferences
    \/ RestartConferences
    \/ InterruptConferences
    \/ Tick

SpecConference == InitConference /\ [][NextConferences]_vars

\* C23: a conference that an earlier run finished and that the checkpoint
\* file lists as completed is skipped in a later run unless --force is
\* given: main never scrapes a conference that the loaded checkpoint lists
\* when --force was not given.
C23_CompletedIsSkipped ==
    \A j \in DOMAIN confs.log :
        (confs.log[j].what = "processed" /\ confs.log[j].listed)
            => confs.log[j].force

\* C26: a conference is recorded as completed only when every field write of
\* each of its mapped entries was performed on the store or is saved in
\* pending_writes.
C26_CompletedMeansSaved ==
    \A j \in DOMAIN confs.log :
        confs.log[j].what = "completed"
            => confs.log[j].values
                   \subseteq (Performed \cup PendingValues(file.pending_writes))

====
